---- MODULE Spec2Model ----
(***************************************************************************)
(* Model of the calorie-planning and progress-simulation engine of         *)
(* body-track (lib/simulation.ts): computeCaloriePlan, calculateScore and  *)
(* buildSimulationData.                                                    *)
(*                                                                         *)
(* JavaScript numbers are modelled as exact rationals [n, d] with d > 0    *)
(* and gcd(n, d) = 1, extended by the three non-finite values the code can *)
(* produce: NaN = [0,0], +Infinity = [1,0], -Infinity = [-1,0].            *)
(* A Date is its UTC time in hours; a 'YYYY-MM-DD' string is the number of *)
(* the UTC day it names.                                                   *)
(***************************************************************************)
EXTENDS Integers, Sequences, FiniteSets, TLC

VARIABLES
    pc,              \* which function runs and where it is
    args,            \* calculateScore: the six arguments
    score,           \* calculateScore: the returned value
    input,           \* computeCaloriePlan: the PlanInput
    plan,            \* computeCaloriePlan: the returned plan
    now,             \* the time "new Date()" returns, in hours UTC
    tz,              \* the time zone of the runtime (local-time Date methods)
    settings,        \* buildSimulationData: InitialSettings
    entries,         \* buildSimulationData: DailyEntry[]
    days,            \* buildSimulationData: horizon
    i,               \* buildSimulationData: loop index
    currentWeight,   \* buildSimulationData: running simulated weight
    currentBodyFat,  \* buildSimulationData: running simulated body fat
    lastActualDay,   \* buildSimulationData: index of the last measured day
    sortedEntries,   \* buildSimulationData: the entries sorted by date
    actualEntries,   \* buildSimulationData: the sorted entries with a measurement
    totalDays,       \* buildSimulationData: days from today to the target date
    prediction,      \* buildSimulationData: hasPredictionSource and avgDeltaKcal
    lastUsedCalories, \* buildSimulationData: usedCalories of the latest iteration
    points,          \* buildSimulationData: ChartPoint[] built so far
    firstResult,     \* the caller: what an earlier call was given and returned
    comparison,      \* compareWithPlan: the returned ProgressComparison
    editingId,       \* DailyEntryForm: the id of the entry being edited, or null
    formDate,        \* DailyEntryForm: the date field of the form
    store,           \* Supabase: the settings row and the entries rows of the user
    hook,            \* useDataStorage: settings, entries, isLoading, error
    loadCall,        \* useDataStorage: the loadData call in flight
    updateCall,      \* useDataStorage: the updateSettings/updateEntries call in flight
    completed,       \* the caller: the update that returned last, while nothing started since
    calls,           \* the caller: how many loads and updates were started
    authItem,        \* localStorage: the parsed item 'body-track-auth', or null
    authCall,        \* the caller: the latest signUp/signIn call and what it returned
    signedUp,        \* the caller: the latest signUp that succeeded
    nextUserId,      \* localStorageAuth: what Date.now() and Math.random() give next
    authState,       \* useAuth: user and isLoading
    effect,          \* useAuth: mounted, subscription, the timeout and where initAuth is
    intervals        \* localStorageAuth: the setInterval timers that run checkAuth

scoreVars == <<args, score>>
planVars == <<input, plan>>
envVars == <<now, tz>>
simVars == <<settings, entries, days, i, currentWeight, currentBodyFat,
             lastActualDay, sortedEntries, actualEntries, totalDays, prediction,
             lastUsedCalories, points>>
uiVars == <<firstResult, comparison, editingId, formDate>>

storeVars == <<store, hook, loadCall, updateCall, completed, calls>>
authVars == <<authItem, authCall, signedUp, nextUserId>>
useAuthVars == <<authState, effect, intervals>>
appVars == <<storeVars, authVars, useAuthVars>>

vars == <<pc, scoreVars, planVars, envVars, simVars, uiVars, appVars>>

(***************************************************************************)
(* Values that stand for "not there"                                       *)
(***************************************************************************)
Undefined == [undefined |-> TRUE]
Null == [null |-> TRUE]

(***************************************************************************)
(* JavaScript number arithmetic                                            *)
(***************************************************************************)
AbsInt(x) == IF x < 0 THEN -x ELSE x

RECURSIVE Gcd(_, _)
Gcd(a, b) == IF b = 0 THEN a ELSE Gcd(b, a % b)

Sgn(x) == IF x > 0 THEN 1 ELSE IF x < 0 THEN -1 ELSE 0

\* The number n/d, d # 0, in lowest terms.
Q(n, d) ==
    LET g == Gcd(AbsInt(n), AbsInt(d))
        s == IF d < 0 THEN -1 ELSE 1
    IN  [n |-> s * (n \div g), d |-> s * (d \div g)]

Int2Num(k) == [n |-> k, d |-> 1]
NaN == [n |-> 0, d |-> 0]
Inf(s) == [n |-> s, d |-> 0]

IsNaN(a) == a.n = 0 /\ a.d = 0
IsInf(a) == a.n # 0 /\ a.d = 0
IsFinite(a) == a.d # 0

Add(a, b) ==
    IF IsNaN(a) \/ IsNaN(b) THEN NaN
    ELSE IF IsInf(a) /\ IsInf(b) THEN (IF a.n = b.n THEN a ELSE NaN)
    ELSE IF IsInf(a) THEN a
    ELSE IF IsInf(b) THEN b
    ELSE Q(a.n * b.d + b.n * a.d, a.d * b.d)

Neg(a) == [n |-> -a.n, d |-> a.d]

Sub(a, b) == Add(a, Neg(b))

Mul(a, b) ==
    IF IsNaN(a) \/ IsNaN(b) THEN NaN
    ELSE IF IsInf(a) \/ IsInf(b)
         THEN (IF a.n = 0 \/ b.n = 0 THEN NaN ELSE Inf(Sgn(a.n) * Sgn(b.n)))
    ELSE Q(a.n * b.n, a.d * b.d)

Div(a, b) ==
    IF IsNaN(a) \/ IsNaN(b) THEN NaN
    ELSE IF IsInf(a) THEN (IF IsInf(b) THEN NaN
                           ELSE Inf(IF b.n < 0 THEN -a.n ELSE a.n))
    ELSE IF IsInf(b) THEN Int2Num(0)
    ELSE IF b.n = 0 THEN (IF a.n = 0 THEN NaN ELSE Inf(Sgn(a.n)))
    ELSE Q(a.n * b.d, a.d * b.n)

\* a < b, a === b, a > b ... of JavaScript: every comparison with NaN is false
Lt(a, b) ==
    IF IsNaN(a) \/ IsNaN(b) THEN FALSE
    ELSE IF IsInf(a) /\ IsInf(b) THEN a.n < b.n
    ELSE a.n * b.d < b.n * a.d

Gt(a, b) == Lt(b, a)
Eq(a, b) == ~IsNaN(a) /\ ~IsNaN(b) /\ a = b
Le(a, b) == Lt(a, b) \/ Eq(a, b)
Ge(a, b) == Le(b, a)

MathMax(a, b) == IF IsNaN(a) \/ IsNaN(b) THEN NaN ELSE IF Lt(a, b) THEN b ELSE a
MathMin(a, b) == IF IsNaN(a) \/ IsNaN(b) THEN NaN ELSE IF Lt(b, a) THEN b ELSE a
MathAbs(a) == [n |-> AbsInt(a.n), d |-> a.d]

\* Math.round: the nearest integer, halves rounded up
MathRound(a) == IF ~IsFinite(a) THEN a ELSE Int2Num((2 * a.n + a.d) \div (2 * a.d))
MathCeil(a) == IF ~IsFinite(a) THEN a ELSE Int2Num(-((-a.n) \div a.d))

\* a JavaScript number used as a condition: 0 and NaN are falsy
Truthy(a) == ~IsNaN(a) /\ a.n # 0

(***************************************************************************)
(* calculateScore                                                          *)
(***************************************************************************)
\* calculateScore dividing the weighted sum by 2 instead of 2.5
calculateScore_div2(weight, bodyFat, goalWeight, goalBodyFat, initialWeight, initialBodyFat) ==
    LET weightScore ==
            IF ~Eq(initialWeight, goalWeight)
            THEN Add(Int2Num(50),
                     Mul(Div(Sub(initialWeight, weight), Sub(initialWeight, goalWeight)),
                         Int2Num(50)))
            ELSE Int2Num(50)
        bodyFatScore ==
            IF ~Eq(initialBodyFat, goalBodyFat)
            THEN Add(Int2Num(50),
                     Mul(Div(Sub(initialBodyFat, bodyFat), Sub(initialBodyFat, goalBodyFat)),
                         Int2Num(50)))
            ELSE Int2Num(50)
        totalScore == Div(Add(weightScore, Mul(bodyFatScore, Q(3, 2))), Int2Num(2))
    IN  MathMax(Int2Num(0), MathMin(Int2Num(100), totalScore))

\* calculateScore putting the factor 1.5 on the weight instead of the body fat
calculateScore_swapped(weight, bodyFat, goalWeight, goalBodyFat, initialWeight, initialBodyFat) ==
    LET weightScore ==
            IF ~Eq(initialWeight, goalWeight)
            THEN Add(Int2Num(50),
                     Mul(Div(Sub(initialWeight, weight), Sub(initialWeight, goalWeight)),
                         Int2Num(50)))
            ELSE Int2Num(50)
        bodyFatScore ==
            IF ~Eq(initialBodyFat, goalBodyFat)
            THEN Add(Int2Num(50),
                     Mul(Div(Sub(initialBodyFat, bodyFat), Sub(initialBodyFat, goalBodyFat)),
                         Int2Num(50)))
            ELSE Int2Num(50)
        totalScore == Div(Add(Mul(weightScore, Q(3, 2)), bodyFatScore), Q(5, 2))
    IN  MathMax(Int2Num(0), MathMin(Int2Num(100), totalScore))

calculateScore(weight, bodyFat, goalWeight, goalBodyFat, initialWeight, initialBodyFat) ==
    LET weightScore ==
            IF ~Eq(initialWeight, goalWeight)
            THEN Add(Int2Num(50),
                     Mul(Div(Sub(initialWeight, weight), Sub(initialWeight, goalWeight)),
                         Int2Num(50)))
            ELSE Int2Num(50)
        bodyFatScore ==
            IF ~Eq(initialBodyFat, goalBodyFat)
            THEN Add(Int2Num(50),
                     Mul(Div(Sub(initialBodyFat, bodyFat), Sub(initialBodyFat, goalBodyFat)),
                         Int2Num(50)))
            ELSE Int2Num(50)
        totalScore == Div(Add(weightScore, Mul(bodyFatScore, Q(3, 2))), Q(5, 2))
    IN  MathMax(Int2Num(0), MathMin(Int2Num(100), totalScore))

(***************************************************************************)
(* Dates                                                                   *)
(***************************************************************************)
HoursPerDay == 24

\* new Date(); setUTCHours(0, 0, 0, 0)
UTCMidnight(t) == (t \div HoursPerDay) * HoursPerDay

\* parseDate: new Date(value + 'T00:00:00Z')
parseDate(value) == value * HoursPerDay

\* formatDate: date.toISOString().slice(0, 10)
formatDate(date) == date \div HoursPerDay

\* Math.ceil((a.getTime() - b.getTime()) / (1000 * 60 * 60 * 24))
CeilDays(a, b) == -((-(a - b)) \div HoursPerDay)

(***************************************************************************)
(* computeCaloriePlan                                                      *)
(***************************************************************************)
KcalPerKg == 7700

\* the BMR with the male constant for either gender
calculateBMR_maleConstant(weight, height, age, gender) ==
    Add(Sub(Add(Mul(Int2Num(10), weight), Mul(Q(25, 4), height)),
            Mul(Int2Num(5), age)),
        Int2Num(5))

calculateBMR(weight, height, age, gender) ==
    LET base == Sub(Add(Mul(Int2Num(10), weight), Mul(Q(25, 4), height)),
                    Mul(Int2Num(5), age))
    IN  IF gender = "male" THEN Add(base, Int2Num(5))
        ELSE Sub(base, Int2Num(161))

\* the horizon without its lower limit of one day
PlanHorizon_noFloor(in, t) == CeilDays(parseDate(in.targetDate), UTCMidnight(t))

\* N: the days from today to the target date, at least 1
PlanHorizon(in, t) ==
    LET todayDate == UTCMidnight(t)
        target == parseDate(in.targetDate)
        diffDays == CeilDays(target, todayDate)
    IN  IF diffDays < 1 THEN 1 ELSE diffDays

\* deltaWDay = (goalWeight - currentWeight) / N
DeltaWDay(in, t) == Div(Sub(in.goalWeight, in.currentWeight), Int2Num(PlanHorizon(in, t)))

\* the energy of a kilogram taken as 7000 kcal
DeltaEDay_7000(in, t) == Mul(DeltaWDay(in, t), Int2Num(7000))

DeltaEDay(in, t) == Mul(DeltaWDay(in, t), Int2Num(KcalPerKg))

WeeklyDeltaW(in, t) == Mul(DeltaWDay(in, t), Int2Num(7))

\* the intake without its lower limit
FloorIntake_none(c, bmr) == c

\* the lower limit of the intake, 1.1 times the BMR
FloorIntake(c, bmr) == MathMax(c, Mul(bmr, Q(11, 10)))

\* the warnings with the strong weight-loss caution from 1 kg a week on (<=)
PlanWarnings_inclusive(weeklyDeltaW, deltaEDay) ==
    (IF Le(weeklyDeltaW, Int2Num(-1)) THEN <<"lossStrong">>
     ELSE IF Lt(weeklyDeltaW, Q(-4, 5)) THEN <<"lossModerate">>
     ELSE <<>>)
    \o
    (IF Gt(weeklyDeltaW, Q(1, 2)) THEN <<"gainStrong">>
     ELSE IF Gt(weeklyDeltaW, Q(3, 10)) THEN <<"gainModerate">>
     ELSE <<>>)
    \o
    (IF Lt(deltaEDay, Int2Num(-1000)) THEN <<"deficitStrong">>
     ELSE IF Lt(deltaEDay, Int2Num(-800)) THEN <<"deficitModerate">>
     ELSE <<>>)
    \o
    (IF Gt(deltaEDay, Int2Num(600)) THEN <<"surplusStrong">>
     ELSE IF Gt(deltaEDay, Int2Num(400)) THEN <<"surplusModerate">>
     ELSE <<>>)

\* the warnings with the strong deficit caution from 1000 kcal a day on (<=)
\* and the moderate gain caution from 0.3 kg a week on (>=)
PlanWarnings_atThreshold(weeklyDeltaW, deltaEDay) ==
    (IF Lt(weeklyDeltaW, Int2Num(-1)) THEN <<"lossStrong">>
     ELSE IF Lt(weeklyDeltaW, Q(-4, 5)) THEN <<"lossModerate">>
     ELSE <<>>)
    \o
    (IF Gt(weeklyDeltaW, Q(1, 2)) THEN <<"gainStrong">>
     ELSE IF Ge(weeklyDeltaW, Q(3, 10)) THEN <<"gainModerate">>
     ELSE <<>>)
    \o
    (IF Le(deltaEDay, Int2Num(-1000)) THEN <<"deficitStrong">>
     ELSE IF Lt(deltaEDay, Int2Num(-800)) THEN <<"deficitModerate">>
     ELSE <<>>)
    \o
    (IF Gt(deltaEDay, Int2Num(600)) THEN <<"surplusStrong">>
     ELSE IF Gt(deltaEDay, Int2Num(400)) THEN <<"surplusModerate">>
     ELSE <<>>)

\* the warnings, in the order the code pushes them
PlanWarnings(weeklyDeltaW, deltaEDay) ==
    (IF Lt(weeklyDeltaW, Int2Num(-1)) THEN <<"lossStrong">>
     ELSE IF Lt(weeklyDeltaW, Q(-4, 5)) THEN <<"lossModerate">>
     ELSE <<>>)
    \o
    (IF Gt(weeklyDeltaW, Q(1, 2)) THEN <<"gainStrong">>
     ELSE IF Gt(weeklyDeltaW, Q(3, 10)) THEN <<"gainModerate">>
     ELSE <<>>)
    \o
    (IF Lt(deltaEDay, Int2Num(-1000)) THEN <<"deficitStrong">>
     ELSE IF Lt(deltaEDay, Int2Num(-800)) THEN <<"deficitModerate">>
     ELSE <<>>)
    \o
    (IF Gt(deltaEDay, Int2Num(600)) THEN <<"surplusStrong">>
     ELSE IF Gt(deltaEDay, Int2Num(400)) THEN <<"surplusModerate">>
     ELSE <<>>)

computeCaloriePlan(in, t) ==
    LET deltaEDay == DeltaEDay(in, t)
        bmr == calculateBMR(in.currentWeight, in.height, in.age, in.gender)
        cRestMaint == Mul(bmr, Q(13, 10))
        eGym == Mul(Mul(Int2Num(6), in.currentWeight), in.gymSessionHours)
        cGymMaint == Add(cRestMaint, eGym)
        cRest == FloorIntake(Add(cRestMaint, deltaEDay), bmr)
        cGym == FloorIntake(Add(cGymMaint, deltaEDay), bmr)
    IN  [maintenanceKcal |-> MathRound(cRestMaint),
         gymDayTargetKcal |-> MathRound(cGym),
         restDayTargetKcal |-> MathRound(cRest),
         bmr |-> MathRound(bmr),
         deltaEDay |-> deltaEDay,
         warnings |-> PlanWarnings(WeeklyDeltaW(in, t), deltaEDay)]

(***************************************************************************)
(* Specification of calculateScore: the arguments are drawn from ScoreVals *)
(***************************************************************************)
ScoreVals == {Int2Num(0), Int2Num(1), Int2Num(2), Int2Num(5)}

Idle == [kind |-> "none"]

\* no storage hook, no auth module and no auth hook are in use
AppIdle ==
    /\ store = Idle /\ hook = Idle /\ loadCall = Idle /\ updateCall = Idle
    /\ completed = Null /\ calls = 0
    /\ authItem = Null /\ authCall = Idle /\ signedUp = Null /\ nextUserId = 0
    /\ authState = Idle /\ effect = Idle /\ intervals = {}

InitScore ==
    /\ pc = "score"
    /\ args \in [weight : ScoreVals, bodyFat : ScoreVals,
                 goalWeight : ScoreVals, goalBodyFat : ScoreVals,
                 initialWeight : ScoreVals, initialBodyFat : ScoreVals]
    /\ score = Null
    /\ input = Idle /\ plan = Idle /\ now = 0 /\ tz = Idle
    /\ settings = Idle /\ entries = <<>> /\ days = 0 /\ i = 0
    /\ currentWeight = Null /\ currentBodyFat = Null
    /\ lastActualDay = -1 /\ points = <<>>
    /\ sortedEntries = <<>> /\ actualEntries = <<>> /\ totalDays = 0
    /\ prediction = Idle /\ lastUsedCalories = Null
    /\ firstResult = Null /\ comparison = Idle /\ editingId = Null /\ formDate = 0
    /\ AppIdle

CallCalculateScore ==
    /\ pc = "score"
    /\ score' = calculateScore(args.weight, args.bodyFat, args.goalWeight,
                               args.goalBodyFat, args.initialWeight, args.initialBodyFat)
    /\ pc' = "scored"
    /\ UNCHANGED <<args, planVars, envVars, simVars, uiVars, appVars>>

NextScore == CallCalculateScore

SpecScore == InitScore /\ [][NextScore]_vars

(***************************************************************************)
(* Specification of computeCaloriePlan: the input is drawn from PlanInputs *)
(* and the clock from Nows                                                 *)
(***************************************************************************)
\* day 100, in the morning and late in the evening (UTC)
Today == 100
Nows == {Today * HoursPerDay + 3, Today * HoursPerDay + 23}

PlanTargetDates ==
    {Today - 10, Today - 1, Today, Today + 1, Today + 7, Today + 30, Today + 35,
     Today + 70, Today + 77}

PlanInputs ==
    [currentWeight : {Int2Num(60), Int2Num(80)},
     goalWeight : {Int2Num(55), Int2Num(63), Int2Num(70), Int2Num(80), Int2Num(82)},
     targetDate : PlanTargetDates,
     gender : {"male", "female"},
     age : {Int2Num(30)},
     height : {Int2Num(170), Int2Num(175)},
     gymSessionHours : {Int2Num(0), Q(3, 2)},
     gymSessionsPerWeek : {0, 3}]

InitPlan ==
    /\ pc = "plan"
    /\ input \in PlanInputs
    /\ now \in Nows
    /\ plan = Idle
    /\ args = Idle /\ score = Null /\ tz = Idle
    /\ settings = Idle /\ entries = <<>> /\ days = 0 /\ i = 0
    /\ currentWeight = Null /\ currentBodyFat = Null
    /\ lastActualDay = -1 /\ points = <<>>
    /\ sortedEntries = <<>> /\ actualEntries = <<>> /\ totalDays = 0
    /\ prediction = Idle /\ lastUsedCalories = Null
    /\ firstResult = Null /\ comparison = Idle /\ editingId = Null /\ formDate = 0
    /\ AppIdle

CallComputeCaloriePlan ==
    /\ pc = "plan"
    /\ plan' = computeCaloriePlan(input, now)
    /\ pc' = "planned"
    /\ UNCHANGED <<input, scoreVars, envVars, simVars, uiVars, appVars>>

NextPlan == CallComputeCaloriePlan

SpecPlan == InitPlan /\ [][NextPlan]_vars

(***************************************************************************)
(* Local time.  A time zone is [before, after, switch]: local = UTC +      *)
(* before (hours) up to the UTC instant switch, UTC + after from then on.  *)
(***************************************************************************)
Offset(z, utc) == IF utc < z.switch THEN z.before ELSE z.after

\* the UTC instant of a local wall-clock time; a time that is skipped or
\* repeated is read with the offset in force before the transition
LocalToUTC(z, local) ==
    IF local - z.before < z.switch THEN local - z.before
    ELSE IF local - z.after >= z.switch THEN local - z.after
    ELSE local - z.before

\* addDays: d.setDate(d.getDate() + n), on the local calendar
addDays(z, date, n) == LocalToUTC(z, date + Offset(z, date) + n * HoursPerDay)

(***************************************************************************)
(* buildSimulationData                                                     *)
(***************************************************************************)
\* insert e into the sorted sequence s, after the entries of the same date
RECURSIVE InsertByDate(_, _)
InsertByDate(s, e) ==
    IF s = <<>> THEN <<e>>
    ELSE IF s[Len(s)].date <= e.date THEN Append(s, e)
    ELSE Append(InsertByDate(SubSeq(s, 1, Len(s) - 1), e), s[Len(s)])

\* [...entries].sort((a, b) => a.date.localeCompare(b.date)), a stable sort
RECURSIVE SortedEntries(_)
SortedEntries(es) ==
    IF es = <<>> THEN <<>>
    ELSE InsertByDate(SortedEntries(SubSeq(es, 1, Len(es) - 1)), es[Len(es)])

\* entryByDate.get(dateStr): the last entry of that date in sorted order
EntryByDate(sorted, dateStr) ==
    LET idx == {k \in 1..Len(sorted) : sorted[k].date = dateStr}
    IN  IF idx = {} THEN Undefined
        ELSE sorted[CHOOSE k \in idx : \A m \in idx : m <= k]

StartDate(t) == UTCMidnight(t)

\* totalDays: the days from today to settings.targetDate
TotalDays(st, t) == CeilDays(parseDate(st.targetDate), StartDate(t))

RECURSIVE SumDeltas(_, _)
SumDeltas(es, maintenance) ==
    IF es = <<>> THEN Int2Num(0)
    ELSE Add(SumDeltas(SubSeq(es, 1, Len(es) - 1), maintenance),
             Sub(es[Len(es)].calories, maintenance))

\* the trailing window of the last week: [hasPredictionSource, avgDeltaKcal]
PredictionSource(st, sorted, z) ==
    LET maintenance == st.maintenanceKcal
    IN  IF Len(sorted) > 0 /\ Gt(maintenance, Int2Num(0))
        THEN LET latestEntryDate == parseDate(sorted[Len(sorted)].date)
                 weekAgo == addDays(z, latestEntryDate, -6)
                 recentEntries == SelectSeq(sorted,
                     LAMBDA e : parseDate(e.date) >= weekAgo
                                /\ parseDate(e.date) <= latestEntryDate)
             IN  IF Len(recentEntries) >= 7
                 THEN [hasPredictionSource |-> TRUE,
                       avgDeltaKcal |-> Div(SumDeltas(recentEntries, maintenance),
                                            Int2Num(Len(recentEntries)))]
                 ELSE [hasPredictionSource |-> FALSE, avgDeltaKcal |-> Null]
        ELSE [hasPredictionSource |-> FALSE, avgDeltaKcal |-> Null]

\* actualEntries: the entries that carry a weight or a body fat
ActualEntries(sorted) ==
    SelectSeq(sorted, LAMBDA e : e.weight # Undefined \/ e.bodyFat # Undefined)

IsGymDayPlanned(st, k) ==
    IF st.gymSessionsPerWeek > 0
    THEN LET period == MathRound(Q(7, st.gymSessionsPerWeek)).n
         IN  period # 0 /\ k % period = 0
    ELSE FALSE

PlannedCalories(st, k) ==
    IF IsGymDayPlanned(st, k) THEN st.gymDayTargetKcal ELSE st.restDayTargetKcal

\* today counted as a future day
CanPredictDay_fromToday(src, t, date) ==
    date >= StartDate(t) /\ src.hasPredictionSource /\ src.avgDeltaKcal # Null

\* hasPrediction: isFuture && canPredict
CanPredictDay(src, t, date) ==
    date > StartDate(t) /\ src.hasPredictionSource /\ src.avgDeltaKcal # Null

\* the extrapolation preferred to the logged calories
UsedCalories_predictionFirst(st, src, t, k, date, entry) ==
    IF CanPredictDay(src, t, date)
    THEN Add(st.maintenanceKcal, src.avgDeltaKcal)
    ELSE IF entry # Undefined THEN entry.calories
    ELSE PlannedCalories(st, k)

UsedCalories(st, src, t, k, date, entry) ==
    IF entry # Undefined THEN entry.calories
    ELSE IF CanPredictDay(src, t, date)
         THEN Add(st.maintenanceKcal, src.avgDeltaKcal)
    ELSE PlannedCalories(st, k)

\* the measurement of the day ignored by the running state
ResetToActual_none(running, measured) == running

\* the running state after the measurement of the day, if any, is taken over
ResetToActual(running, measured) == IF measured # Undefined THEN measured ELSE running

\* the projection of one day with the body fat recomputed on a gain too
ProjectDay_fatOnGain(w, bf, maintenance, usedCalories) ==
    IF Gt(maintenance, Int2Num(0)) /\ Truthy(usedCalories)
    THEN LET deltaWeight == Div(Sub(usedCalories, maintenance), Int2Num(KcalPerKg))
             w2 == Add(w, deltaWeight)
             fatChange == Mul(deltaWeight, Q(4, 5))
             currentFatMass == Div(Mul(w2, bf), Int2Num(100))
             newFatMass == MathMax(Int2Num(0), Add(currentFatMass, fatChange))
         IN  [weight |-> w2, bodyFat |-> Mul(Div(newFatMass, w2), Int2Num(100))]
    ELSE [weight |-> w, bodyFat |-> bf]

\* the projection of one day: [weight, bodyFat] after the day's calories
ProjectDay(w, bf, maintenance, usedCalories) ==
    IF Gt(maintenance, Int2Num(0)) /\ Truthy(usedCalories)
    THEN LET deltaWeight == Div(Sub(usedCalories, maintenance), Int2Num(KcalPerKg))
             w2 == Add(w, deltaWeight)
         IN  IF Lt(deltaWeight, Int2Num(0))
             THEN LET fatLoss == Mul(MathAbs(deltaWeight), Q(4, 5))
                      currentFatMass == Div(Mul(w2, bf), Int2Num(100))
                      newFatMass == MathMax(Int2Num(0), Sub(currentFatMass, fatLoss))
                  IN  [weight |-> w2,
                       bodyFat |-> Mul(Div(newFatMass, w2), Int2Num(100))]
             ELSE [weight |-> w2, bodyFat |-> bf]
    ELSE [weight |-> w, bodyFat |-> bf]

PlannedScore(k, total) ==
    IF total > 0
    THEN Add(Int2Num(50), MathMin(Int2Num(50), Mul(Q(k, total), Int2Num(50))))
    ELSE Int2Num(50)

\* the planned value going on past the target date
PlannedValue_noCap(from, to, k, total) ==
    IF total > 0
    THEN Add(from, Mul(Sub(to, from), Q(k, total)))
    ELSE from

\* Math.min(1, i / totalDays) of the planned weight and body fat
PlannedValue(from, to, k, total) ==
    IF total > 0
    THEN Add(from, Mul(Sub(to, from), MathMin(Int2Num(1), Q(k, total))))
    ELSE from

ScoreOf(st, w, bf) ==
    calculateScore(w, bf, st.goalWeight, st.goalBodyFat, st.currentWeight, st.currentBodyFat)

\* ?? of JavaScript
Coalesce(v, dflt) == IF v = Undefined \/ v = Null THEN dflt ELSE v

\* the simulated score always taken from the calorie projection
SimulatedScore_fromCalories(st, actuals, k, total, lastActual, measuredToday, fromCalories) ==
    fromCalories

\* the simulated score of day k, before it is clamped
SimulatedScore(st, actuals, k, total, lastActual, measuredToday, fromCalories) ==
    LET plannedScore == PlannedScore(k, total)
    IN  IF Len(actuals) = 0 THEN plannedScore
        ELSE IF lastActual >= 0 /\ k > lastActual
        THEN LET daysSinceLastActual == k - lastActual
                 remainingDays == total - k
             IN  IF remainingDays > 0
                 THEN LET plannedScoreAtLastActual == PlannedScore(lastActual, total)
                          lastActualEntry == actuals[Len(actuals)]
                          actualScoreAtLastActual ==
                              ScoreOf(st, Coalesce(lastActualEntry.weight, st.currentWeight),
                                      Coalesce(lastActualEntry.bodyFat, st.currentBodyFat))
                          deviationAtLastActual ==
                              Sub(actualScoreAtLastActual, plannedScoreAtLastActual)
                          adjustment == Mul(Div(deviationAtLastActual, Int2Num(remainingDays)),
                                            Int2Num(daysSinceLastActual))
                      IN  Add(fromCalories, adjustment)
                 ELSE fromCalories
        ELSE IF k <= lastActual
        THEN (IF ~measuredToday THEN plannedScore ELSE fromCalories)
        ELSE plannedScore

\* Math.max(0, Math.min(100, x))
Clamp100(x) == MathMax(Int2Num(0), MathMin(Int2Num(100), x))

\* the actual score given only when both measurements are there
ActualScore_bothOnly(st, actualWeight, actualBodyFat, runningBodyFat) ==
    IF actualWeight # Null /\ actualBodyFat # Null
    THEN ScoreOf(st, actualWeight, actualBodyFat)
    ELSE Null

\* actualScore: from the two measurements, or from the measured weight and
\* the running body fat, or null
ActualScore(st, actualWeight, actualBodyFat, runningBodyFat) ==
    IF actualWeight # Null /\ actualBodyFat # Null
    THEN ScoreOf(st, actualWeight, actualBodyFat)
    ELSE IF actualWeight # Null
    THEN ScoreOf(st, actualWeight, runningBodyFat)
    ELSE Null

\* one iteration of the loop: the new running state and the ChartPoint
SimDayResult(st, sorted, actuals, total, src, z, t, k, w0, bf0, lastActual0) ==
    LET date == addDays(z, StartDate(t), k)
        dateStr == formatDate(date)
        entry == EntryByDate(sorted, dateStr)
        actualWeight == IF entry # Undefined /\ entry.weight # Undefined
                        THEN entry.weight ELSE Null
        actualBodyFat == IF entry # Undefined /\ entry.bodyFat # Undefined
                         THEN entry.bodyFat ELSE Null
        w1 == ResetToActual(w0, IF actualWeight = Null THEN Undefined ELSE actualWeight)
        bf1 == ResetToActual(bf0, IF actualBodyFat = Null THEN Undefined ELSE actualBodyFat)
        measuredToday == actualWeight # Null \/ actualBodyFat # Null
        lastActual == IF measuredToday THEN k ELSE lastActual0
        usedCalories == UsedCalories(st, src, t, k, date, entry)
        proj == ProjectDay(w1, bf1, st.maintenanceKcal, usedCalories)
        plannedScore == PlannedScore(k, total)
        fromCalories == ScoreOf(st, proj.weight, proj.bodyFat)
        simulatedScore == SimulatedScore(st, actuals, k, total, lastActual,
                                         measuredToday, fromCalories)
        actualScore == ActualScore(st, actualWeight, actualBodyFat, proj.bodyFat)
    IN  [currentWeight |-> proj.weight,
         currentBodyFat |-> proj.bodyFat,
         lastActualDay |-> lastActual,
         usedCalories |-> usedCalories,
         point |-> [date |-> dateStr,
                    simulatedScore |-> Clamp100(simulatedScore),
                    actualScore |-> IF actualScore # Null THEN Clamp100(actualScore) ELSE Null,
                    plannedScore |-> Clamp100(plannedScore),
                    actualWeight |-> actualWeight,
                    simulatedWeight |-> proj.weight,
                    plannedWeight |-> PlannedValue(st.currentWeight, st.goalWeight, k, total),
                    actualBodyFat |-> actualBodyFat,
                    simulatedBodyFat |-> proj.bodyFat,
                    plannedBodyFat |-> PlannedValue(st.currentBodyFat, st.goalBodyFat,
                                                    k, total),
                    hasPrediction |-> CanPredictDay(src, t, date)]]

(***************************************************************************)
(* Specification of buildSimulationData: the settings, the entry list, the *)
(* horizon and the time zone are drawn from bounded sets; one action per   *)
(* loop iteration                                                          *)
(***************************************************************************)
MaxDays == 3
MaxEntries == 2

\* a zone without daylight saving time (Asia/Tokyo) and one whose clocks go
\* forward one hour during the day after today (America/New_York in March)
TimeZones ==
    {[before |-> 9, after |-> 9, switch |-> 0],
     [before |-> -5, after |-> -4, switch |-> (Today + 1) * HoursPerDay + 7]}

\* the target date is yesterday or in two days; with tomorrow as the target
\* date, which the horizon passes, only the settings without gym days, without
\* maintenance calories and with a body-fat goal are kept
SimSettings ==
    {s \in [currentWeight : {Int2Num(2)},
            currentBodyFat : {Int2Num(20)},
            goalWeight : {Int2Num(1), Int2Num(2)},
            goalBodyFat : {Int2Num(10), Int2Num(20)},
            targetDate : {Today - 1, Today + 1, Today + 2},
            gymSessionsPerWeek : {0, 3},
            maintenanceKcal : {Int2Num(0), Int2Num(KcalPerKg)},
            gymDayTargetKcal : {Int2Num(11550)},
            restDayTargetKcal : {Int2Num(3850)}] :
        s.targetDate = Today + 1
            => /\ s.gymSessionsPerWeek = 0
               /\ s.maintenanceKcal = Int2Num(0)
               /\ s.goalBodyFat = Int2Num(10)}

Entry(id, date, calories, weight, bodyFat) ==
    [id |-> id, date |-> date, calories |-> Int2Num(calories), gymHours |-> Int2Num(0),
     weight |-> weight, bodyFat |-> bodyFat]

\* the entries the lists are made of: calories only, a weight only, both
\* measurements on a day without calories, a body fat only, and a measured
\* entry dated before today
EntryChoices ==
    {Entry("a", Today, 3850, Undefined, Undefined),
     Entry("b", Today, 3850, Q(1, 2), Undefined),
     Entry("c", Today + 1, 0, Int2Num(3), Int2Num(10)),
     Entry("d", Today + 2, 15400, Undefined, Int2Num(30)),
     Entry("f", Today - 1, 7700, Int2Num(3), Int2Num(10))}

RECURSIVE SeqsUpTo(_, _)
SeqsUpTo(S, n) ==
    IF n = 0 THEN {<<>>}
    ELSE LET shorter == SeqsUpTo(S, n - 1)
         IN  shorter \cup {Append(q, e) : q \in shorter, e \in S}

\* a week of calorie-only entries ending today, logged every day; the same
\* with the entry of the day before yesterday missing
History(skip) ==
    [k \in 1..7 |-> Entry("h", IF k <= skip THEN Today - 8 + k ELSE Today - 7 + k,
                          3850, Undefined, Undefined)]

\* a week of calorie-only entries logged every day up to tomorrow, the last
\* one with other calories than the rest
HistoryAhead ==
    [k \in 1..7 |-> Entry("p", Today - 6 + k, IF k = 7 THEN 7700 ELSE 15400,
                          Undefined, Undefined)]

\* seven calorie-only entries within the week ending today: yesterday has
\* none and today has two
HistoryTwice ==
    [k \in 1..7 |-> Entry("q", IF k >= 6 THEN Today ELSE Today - 7 + k,
                          3850, Undefined, Undefined)]

EntryLists ==
    SeqsUpTo(EntryChoices, MaxEntries)
        \cup {History(0), History(5), HistoryAhead, HistoryTwice}

InitSim ==
    /\ pc = "simCall"
    /\ settings \in SimSettings
    /\ entries \in EntryLists
    /\ days \in 0..MaxDays
    /\ tz \in TimeZones
    /\ now = Today * HoursPerDay + 3
    /\ i = 0
    /\ currentWeight = Null /\ currentBodyFat = Null
    /\ lastActualDay = -1 /\ points = <<>>
    /\ sortedEntries = <<>> /\ actualEntries = <<>> /\ totalDays = 0
    /\ prediction = Idle /\ lastUsedCalories = Null
    /\ firstResult = Null /\ comparison = Idle /\ editingId = Null /\ formDate = 0
    /\ AppIdle
    /\ args = Idle /\ score = Null /\ input = Idle /\ plan = Idle

\* the function up to the loop, sorting the caller's list in place
SimBegin_inPlace ==
    /\ pc = "simCall"
    /\ entries' = SortedEntries(entries)
    /\ sortedEntries' = SortedEntries(entries)
    /\ totalDays' = TotalDays(settings, now)
    /\ prediction' = PredictionSource(settings, SortedEntries(entries), tz)
    /\ actualEntries' = ActualEntries(SortedEntries(entries))
    /\ currentWeight' = settings.currentWeight
    /\ currentBodyFat' = settings.currentBodyFat
    /\ lastActualDay' = -1
    /\ points' = <<>>
    /\ i' = 0
    /\ lastUsedCalories' = Null
    /\ pc' = "simLoop"
    /\ UNCHANGED <<settings, days, scoreVars, planVars, envVars, uiVars, appVars>>

\* the function up to the loop: the entries are sorted, the trailing week
\* is evaluated and the running state starts at the baseline
SimBegin ==
    /\ pc = "simCall"
    /\ sortedEntries' = SortedEntries(entries)
    /\ totalDays' = TotalDays(settings, now)
    /\ prediction' = PredictionSource(settings, SortedEntries(entries), tz)
    /\ actualEntries' = ActualEntries(SortedEntries(entries))
    /\ currentWeight' = settings.currentWeight
    /\ currentBodyFat' = settings.currentBodyFat
    /\ lastActualDay' = -1
    /\ points' = <<>>
    /\ i' = 0
    /\ lastUsedCalories' = Null
    /\ pc' = "simLoop"
    /\ UNCHANGED <<settings, entries, days, scoreVars, planVars, envVars, uiVars, appVars>>

\* for (let i = 0; i < days; i++) { ... points.push(...) }
SimDay ==
    /\ pc = "simLoop"
    /\ i < days
    /\ LET r == SimDayResult(settings, sortedEntries, actualEntries, totalDays,
                             prediction, tz, now, i,
                             currentWeight, currentBodyFat, lastActualDay)
       IN  /\ currentWeight' = r.currentWeight
           /\ currentBodyFat' = r.currentBodyFat
           /\ lastActualDay' = r.lastActualDay
           /\ lastUsedCalories' = r.usedCalories
           /\ points' = Append(points, r.point)
    /\ i' = i + 1
    /\ UNCHANGED <<pc, settings, entries, days, sortedEntries, actualEntries,
                   totalDays, prediction, scoreVars, planVars, envVars, uiVars, appVars>>

\* return points
SimReturn ==
    /\ pc = "simLoop"
    /\ ~(i < days)
    /\ pc' = "simDone"
    /\ UNCHANGED <<scoreVars, planVars, envVars, simVars, uiVars, appVars>>

NextSim == SimBegin \/ SimDay \/ SimReturn

SpecSim == InitSim /\ [][NextSim]_vars

(***************************************************************************)
(* compareWithPlan                                                         *)
(***************************************************************************)
\* the latest entry that carries a weight or a body fat: the first element
\* of the measured entries sorted by descending date (the sort is stable)
LatestEntry(es) ==
    LET measured == ActualEntries(es)
    IN  IF measured = <<>> THEN Undefined
        ELSE measured[CHOOSE j \in 1..Len(measured) :
                          /\ \A k \in 1..Len(measured) : measured[k].date <= measured[j].date
                          /\ \A k \in 1..(j - 1) : measured[k].date < measured[j].date]

\* on schedule only when strictly above the tolerance
IsOnSchedule_strict(actualProgress, plannedProgress) ==
    Gt(actualProgress, Sub(plannedProgress, Q(5, 2)))

\* actualProgress >= plannedProgress - 2.5
IsOnSchedule(actualProgress, plannedProgress) ==
    Ge(actualProgress, Sub(plannedProgress, Q(5, 2)))

\* a start date one day before today
CompareStartDate_dayBefore(t) ==
    UTCMidnight(t) - HoursPerDay

\* startDate: new Date() with setUTCHours(0, 0, 0, 0), as today is
CompareStartDate(t) ==
    UTCMidnight(t)

compareWithPlan(st, es, t) ==
    LET today == UTCMidnight(t)
        startDate == CompareStartDate(t)
        targetDate == parseDate(st.targetDate)
        total == CeilDays(targetDate, startDate)
        elapsed == CeilDays(today, startDate)
        elapsedDays == IF elapsed > 0 THEN elapsed ELSE 0
        plannedProgress == IF total > 0
                           THEN Add(Int2Num(50), Mul(Q(elapsedDays, total), Int2Num(50)))
                           ELSE Int2Num(50)
        latestEntry == LatestEntry(es)
        weight == IF latestEntry = Undefined THEN st.currentWeight
                  ELSE Coalesce(latestEntry.weight, st.currentWeight)
        bodyFat == IF latestEntry = Undefined THEN st.currentBodyFat
                   ELSE Coalesce(latestEntry.bodyFat, st.currentBodyFat)
        actualProgress == calculateScore(weight, bodyFat, st.goalWeight, st.goalBodyFat,
                                         st.currentWeight, st.currentBodyFat)
        isOnSchedule == IsOnSchedule(actualProgress, plannedProgress)
        progressDiff == Sub(plannedProgress, actualProgress)
    IN  [actualProgress |-> actualProgress,
         plannedProgress |-> plannedProgress,
         isOnSchedule |-> isOnSchedule,
         daysBehind |-> IF ~isOnSchedule /\ total > 0
                        THEN MathCeil(Mul(Div(progressDiff, Int2Num(50)), Int2Num(total)))
                        ELSE Undefined]

(***************************************************************************)
(* Specification of compareWithPlan: the settings and the entry list are   *)
(* those of the simulation, with two more lists whose only entry puts the  *)
(* score 2.5 and 3 points below the plan                                   *)
(***************************************************************************)
CompareEntryLists ==
    EntryLists \cup {<<Entry("g", Today, 3850, Q(17, 8), Undefined)>>,
                     <<Entry("g", Today, 3850, Q(107, 50), Undefined)>>}

InitCompare ==
    /\ pc = "compare"
    /\ settings \in SimSettings
    /\ entries \in CompareEntryLists
    /\ now \in Nows
    /\ comparison = Idle
    /\ tz = Idle /\ days = 0 /\ i = 0
    /\ currentWeight = Null /\ currentBodyFat = Null
    /\ lastActualDay = -1 /\ points = <<>>
    /\ sortedEntries = <<>> /\ actualEntries = <<>> /\ totalDays = 0
    /\ prediction = Idle /\ lastUsedCalories = Null
    /\ firstResult = Null /\ editingId = Null /\ formDate = 0
    /\ AppIdle
    /\ args = Idle /\ score = Null /\ input = Idle /\ plan = Idle

CallCompareWithPlan ==
    /\ pc = "compare"
    /\ comparison' = compareWithPlan(settings, entries, now)
    /\ pc' = "compared"
    /\ UNCHANGED <<scoreVars, planVars, envVars, simVars, firstResult, editingId, formDate, appVars>>

NextCompare == CallCompareWithPlan

SpecCompare == InitCompare /\ [][NextCompare]_vars

(***************************************************************************)
(* DailyEntryForm: the entry list is the entries prop, which onChange       *)
(* replaces; the text fields are the inputs of handleSubmit                *)
(***************************************************************************)
\* number.isFinite(cal) && 0 <= cal <= 10000, and the like for the weight
ValidSubmission(cal, w) ==
    /\ IsFinite(cal) /\ Ge(cal, Int2Num(0)) /\ Le(cal, Int2Num(10000))
    /\ w # Undefined => (IsFinite(w) /\ Gt(w, Int2Num(0)) /\ Le(w, Int2Num(300)))

\* entries.findIndex(e => e.id === id): the first position, 0 for -1
FindIndexById(es, id) ==
    IF \E k \in 1..Len(es) : es[k].id = id
    THEN CHOOSE k \in 1..Len(es) : es[k].id = id /\ \A j \in 1..(k - 1) : es[j].id # id
    ELSE 0

\* entries.findIndex(e => e.date === d): the first position, 0 for -1
FindIndexByDate(es, d) ==
    IF \E k \in 1..Len(es) : es[k].date = d
    THEN CHOOSE k \in 1..Len(es) : es[k].date = d /\ \A j \in 1..(k - 1) : es[j].date # d
    ELSE 0

\* newEntries of handleSubmit
NewEntries(es, editing, newEntry) ==
    LET byId == FindIndexById(es, editing)
        byDate == FindIndexByDate(es, newEntry.date)
    IN  IF editing # Null
        THEN (IF byId > 0 THEN [es EXCEPT ![byId] = newEntry]
              ELSE SortedEntries(Append(es, newEntry)))
        ELSE (IF byDate > 0 THEN [es EXCEPT ![byDate] = newEntry]
              ELSE SortedEntries(Append(es, newEntry)))

MaxSubmits == 3
FormStart == Today * HoursPerDay + 3
FormDates == {Today, Today + 1}
FormCalories == {Int2Num(-1), Int2Num(3850)}
FormWeights == {Undefined, Int2Num(3)}

InitForm ==
    /\ pc = "form"
    /\ entries = <<>>
    /\ editingId = Null
    /\ now = FormStart
    /\ formDate = formatDate(FormStart)
    /\ settings = Idle /\ tz = Idle /\ days = 0 /\ i = 0
    /\ currentWeight = Null /\ currentBodyFat = Null
    /\ lastActualDay = -1 /\ points = <<>>
    /\ sortedEntries = <<>> /\ actualEntries = <<>> /\ totalDays = 0
    /\ prediction = Idle /\ lastUsedCalories = Null
    /\ firstResult = Null /\ comparison = Idle
    /\ AppIdle
    /\ args = Idle /\ score = Null /\ input = Idle /\ plan = Idle

formFrame == <<pc, scoreVars, planVars, tz, settings, days, i, currentWeight,
               currentBodyFat, lastActualDay, sortedEntries, actualEntries, totalDays,
               prediction, lastUsedCalories, points, firstResult, comparison, appVars>>

\* the date field is changed
SetDate ==
    /\ pc = "form"
    /\ \E d \in FormDates : formDate' = d
    /\ UNCHANGED <<entries, editingId, now, formFrame>>

\* a submission that passes the validation (the others alert and return):
\* onChange(newEntries), then handleCancel; the clock moves on, so that a
\* later submission sees a later Date.now()
HandleSubmit ==
    /\ pc = "form"
    /\ now < FormStart + MaxSubmits
    /\ \E cal \in FormCalories, w \in FormWeights :
          /\ ValidSubmission(cal, w)
          /\ LET newEntry == [id |-> IF editingId # Null THEN editingId
                                     ELSE [date |-> formDate, stamp |-> now],
                              date |-> formDate, calories |-> cal,
                              gymHours |-> Int2Num(0), weight |-> w,
                              bodyFat |-> Undefined]
             IN  entries' = NewEntries(entries, editingId, newEntry)
    /\ editingId' = Null
    /\ now' = now + 1
    /\ formDate' = formatDate(now')
    /\ UNCHANGED formFrame

\* the confirmed deletion of one entry of the list
HandleDelete ==
    /\ pc = "form"
    /\ \E k \in 1..Len(entries) :
          entries' = SelectSeq(entries, LAMBDA e : e.id # entries[k].id)
    /\ UNCHANGED <<editingId, formDate, now, formFrame>>

\* one entry of the list is taken into the form
HandleEdit ==
    /\ pc = "form"
    /\ \E k \in 1..Len(entries) :
          /\ editingId' = entries[k].id
          /\ formDate' = entries[k].date
    /\ UNCHANGED <<entries, now, formFrame>>

HandleCancel ==
    /\ pc = "form"
    /\ editingId' = Null
    /\ formDate' = formatDate(now)
    /\ UNCHANGED <<entries, now, formFrame>>

NextForm ==
    \/ SetDate
    \/ HandleSubmit
    \/ HandleDelete
    \/ HandleEdit
    \/ HandleCancel

SpecForm == InitForm /\ [][NextForm]_vars

(***************************************************************************)
(* Specification of two calls of buildSimulationData: the caller keeps     *)
(* what the first call returned and calls again with the same objects,     *)
(* at the same or at a later time of the same day                          *)
(***************************************************************************)
InitRepeat ==
    /\ InitSim
    /\ settings.maintenanceKcal = Int2Num(KcalPerKg)
    /\ settings.goalBodyFat = Int2Num(10)
    /\ settings.targetDate > Today

CallAgain ==
    /\ pc = "simDone"
    /\ firstResult = Null
    /\ firstResult' = [settings |-> settings, entries |-> entries, days |-> days,
                       now |-> now, points |-> points]
    /\ now' \in {t \in Nows \cup {now} : t >= now}
    /\ pc' = "simCall"
    /\ UNCHANGED <<scoreVars, planVars, tz, simVars, comparison, editingId, formDate, appVars>>

NextRepeat == SimBegin \/ SimDay \/ SimReturn \/ CallAgain

SpecRepeat == InitRepeat /\ [][NextRepeat]_vars

(***************************************************************************)
(* useDataStorage over SupabaseStorage: one signed-in user, the requests   *)
(* of a call answered one at a time by the server                          *)
(***************************************************************************)
MaxCalls == 3

\* new Error(...): the message the hook puts in its error state
Failure(message) == [message |-> message]

\* isValidUUID(entry.id): the ids the form makes are time stamps, the ids the
\* database makes are UUIDs
IsValidUUID(id) == "uuid" \in DOMAIN id

\* saveEntries: the row inserted for an entry; an id that is not a UUID is
\* left out and made by the database
EntryRow(entry) ==
    [id |-> IF IsValidUUID(entry.id) THEN entry.id ELSE [uuid |-> entry.date],
     date |-> entry.date,
     calories |-> entry.calories,
     gym_hours |-> entry.gymHours,
     weight |-> Coalesce(entry.weight, Null),
     body_fat |-> Coalesce(entry.bodyFat, Null)]

\* getEntries: the entry made of a row
RowEntry(row) ==
    [id |-> row.id,
     date |-> row.date,
     calories |-> row.calories,
     gymHours |-> row.gym_hours,
     weight |-> IF row.weight = Null THEN Undefined ELSE row.weight,
     bodyFat |-> IF row.body_fat = Null THEN Undefined ELSE row.body_fat]

\* getEntries: the rows of the user in ascending order of date
SelectEntries(rows) ==
    LET ordered == SortedEntries(rows)
    IN  [k \in 1..Len(ordered) |-> RowEntry(ordered[k])]

\* UNIQUE(user_id, date): no two rows of the user share a date
UniqueDates(rows) ==
    \A j, k \in 1..Len(rows) : j # k => rows[j].date # rows[k].date

\* the settings and the entry lists the caller saves: an empty list, one
\* entry, two entries of different dates, and two entries of the same date
StoredSettings ==
    {[goalWeight |-> Int2Num(g)] : g \in {60, 65}}

FormEntry(stamp, date, weight) ==
    Entry([stamp |-> stamp], date, 2000, weight, Undefined)

NewEntryLists ==
    {<<>>,
     <<FormEntry(1, Today, Int2Num(70))>>,
     <<FormEntry(1, Today, Int2Num(70)), FormEntry(2, Today + 1, Undefined)>>,
     <<FormEntry(1, Today, Int2Num(70)), FormEntry(3, Today, Int2Num(69))>>}

InitStorage ==
    /\ pc = "storage"
    /\ store \in [settings : {Null} \cup StoredSettings,
                  entries : {<<>>, <<EntryRow(FormEntry(0, Today - 1, Int2Num(71)))>>}]
    /\ hook = [settings |-> Null, entries |-> <<>>, isLoading |-> TRUE, error |-> Null]
    /\ loadCall = Idle /\ updateCall = Idle
    /\ completed = Null /\ calls = 0
    /\ authItem = Null /\ authCall = Idle /\ signedUp = Null /\ nextUserId = 0
    /\ authState = Idle /\ effect = Idle /\ intervals = {}
    /\ now = 0 /\ tz = Idle /\ settings = Idle /\ entries = <<>> /\ days = 0 /\ i = 0
    /\ currentWeight = Null /\ currentBodyFat = Null
    /\ lastActualDay = -1 /\ points = <<>>
    /\ sortedEntries = <<>> /\ actualEntries = <<>> /\ totalDays = 0
    /\ prediction = Idle /\ lastUsedCalories = Null
    /\ firstResult = Null /\ comparison = Idle /\ editingId = Null /\ formDate = 0
    /\ args = Idle /\ score = Null /\ input = Idle /\ plan = Idle

storageFrame == <<pc, scoreVars, planVars, envVars, simVars, uiVars, authVars, useAuthVars>>

\* loadData up to its await: setIsLoading(true), setError(null)
LoadData ==
    /\ pc = "storage"
    /\ loadCall = Idle
    /\ calls < MaxCalls
    /\ hook' = [hook EXCEPT !.isLoading = TRUE, !.error = Null]
    /\ loadCall' = [kind |-> "load", gotSettings |-> FALSE, gotEntries |-> FALSE,
                    loadedSettings |-> Null, loadedEntries |-> <<>>]
    /\ completed' = Null
    /\ calls' = calls + 1
    /\ UNCHANGED <<store, updateCall, storageFrame>>

\* the server answers getSettings
GetSettings ==
    /\ loadCall # Idle /\ ~loadCall.gotSettings
    /\ loadCall' = [loadCall EXCEPT !.gotSettings = TRUE, !.loadedSettings = store.settings]
    /\ UNCHANGED <<store, hook, updateCall, completed, calls, storageFrame>>

\* the server answers getEntries
GetEntries ==
    /\ loadCall # Idle /\ ~loadCall.gotEntries
    /\ loadCall' = [loadCall EXCEPT !.gotEntries = TRUE,
                                    !.loadedEntries = SelectEntries(store.entries)]
    /\ UNCHANGED <<store, hook, updateCall, completed, calls, storageFrame>>

\* loadData after Promise.all: setSettings, setEntries, setIsLoading(false)
LoadResolve ==
    /\ loadCall # Idle /\ loadCall.gotSettings /\ loadCall.gotEntries
    /\ hook' = [hook EXCEPT !.settings = loadCall.loadedSettings,
                            !.entries = loadCall.loadedEntries,
                            !.isLoading = FALSE]
    /\ loadCall' = Idle
    /\ UNCHANGED <<store, updateCall, completed, calls, storageFrame>>

\* loadData when a request fails: setError, setIsLoading(false)
LoadReject ==
    /\ loadCall # Idle /\ ~(loadCall.gotSettings /\ loadCall.gotEntries)
    /\ hook' = [hook EXCEPT !.error = Failure("load"), !.isLoading = FALSE]
    /\ loadCall' = Idle
    /\ UNCHANGED <<store, updateCall, completed, calls, storageFrame>>

\* updateSettings up to its await
UpdateSettings ==
    /\ pc = "storage"
    /\ updateCall = Idle
    /\ calls < MaxCalls
    /\ \E newSettings \in StoredSettings :
           updateCall' = [kind |-> "settings", at |-> "upsert", arg |-> newSettings,
                          before |-> store.settings]
    /\ completed' = Null
    /\ calls' = calls + 1
    /\ UNCHANGED <<store, hook, loadCall, storageFrame>>

\* saveSettings: one upsert, which the server applies or refuses
SaveSettings ==
    /\ updateCall # Idle /\ updateCall.at = "upsert"
    /\ \/ /\ store' = [store EXCEPT !.settings = updateCall.arg]
          /\ updateCall' = [updateCall EXCEPT !.at = "resolve"]
       \/ /\ updateCall' = [updateCall EXCEPT !.at = "reject"]
          /\ UNCHANGED store
    /\ UNCHANGED <<hook, loadCall, completed, calls, storageFrame>>

\* updateEntries up to its await
UpdateEntries ==
    /\ pc = "storage"
    /\ updateCall = Idle
    /\ calls < MaxCalls
    /\ \E newEntries \in NewEntryLists :
           updateCall' = [kind |-> "entries", at |-> "delete", arg |-> newEntries,
                          before |-> store.entries]
    /\ completed' = Null
    /\ calls' = calls + 1
    /\ UNCHANGED <<store, hook, loadCall, storageFrame>>

\* saveEntries, first request: delete every row of the user; a refused delete
\* throws, an empty list returns after the delete
SaveEntriesDelete ==
    /\ updateCall # Idle /\ updateCall.at = "delete"
    /\ \/ /\ store' = [store EXCEPT !.entries = <<>>]
          /\ updateCall' = [updateCall EXCEPT
                                !.at = IF updateCall.arg = <<>> THEN "resolve" ELSE "insert"]
       \/ /\ updateCall' = [updateCall EXCEPT !.at = "reject"]
          /\ UNCHANGED store
    /\ UNCHANGED <<hook, loadCall, completed, calls, storageFrame>>

\* saveEntries, second request: insert the rows; the server refuses rows that
\* break UNIQUE(user_id, date) and may refuse any request
SaveEntriesInsert ==
    /\ updateCall # Idle /\ updateCall.at = "insert"
    /\ LET rows == [k \in 1..Len(updateCall.arg) |-> EntryRow(updateCall.arg[k])]
       IN  \/ /\ UniqueDates(rows)
              /\ store' = [store EXCEPT !.entries = rows]
              /\ updateCall' = [updateCall EXCEPT !.at = "resolve"]
           \/ /\ updateCall' = [updateCall EXCEPT !.at = "reject"]
              /\ UNCHANGED store
    /\ UNCHANGED <<hook, loadCall, completed, calls, storageFrame>>

\* updateSettings/updateEntries after the save: setSettings or setEntries,
\* setError(null), and the call returns
UpdateResolve ==
    /\ updateCall # Idle /\ updateCall.at = "resolve"
    /\ hook' = IF updateCall.kind = "entries"
               THEN [hook EXCEPT !.entries = updateCall.arg, !.error = Null]
               ELSE [hook EXCEPT !.settings = updateCall.arg, !.error = Null]
    /\ completed' = [kind |-> updateCall.kind, arg |-> updateCall.arg, ok |-> TRUE,
                     before |-> updateCall.before]
    /\ updateCall' = Idle
    /\ UNCHANGED <<store, loadCall, calls, storageFrame>>

\* updateSettings/updateEntries when the save throws: setError, rethrow
UpdateReject ==
    /\ updateCall # Idle /\ updateCall.at = "reject"
    /\ hook' = [hook EXCEPT !.error = Failure("save")]
    /\ completed' = [kind |-> updateCall.kind, arg |-> updateCall.arg, ok |-> FALSE,
                     before |-> updateCall.before]
    /\ updateCall' = Idle
    /\ UNCHANGED <<store, loadCall, calls, storageFrame>>

NextStorage ==
    \/ LoadData \/ GetSettings \/ GetEntries \/ LoadResolve \/ LoadReject
    \/ UpdateSettings \/ SaveSettings
    \/ UpdateEntries \/ SaveEntriesDelete \/ SaveEntriesInsert
    \/ UpdateResolve \/ UpdateReject

SpecStorage == InitStorage /\ [][NextStorage]_vars

(***************************************************************************)
(* lib/auth/localStorageAuth: signUp and signIn over the one localStorage  *)
(* item 'body-track-auth'                                                  *)
(***************************************************************************)
MaxUsers == 3

\* a JavaScript string
Str(s) == [str |-> s]

\* obj.key: undefined when the object has no such property
Prop(obj, key) == IF key \in DOMAIN obj THEN obj[key] ELSE Undefined

Emails == {Str("a@example.com"), Str("b@example.com"), Str("c@example.com")}

Passwords == {Str("p"), Str("q")}

\* getCurrentUser: parsed.user || null of the stored item, null without one
GetCurrentUser(item) ==
    IF item = Null THEN Null
    ELSE IF Prop(item, "user") = Undefined THEN Null ELSE Prop(item, "user")

InitAuth ==
    /\ pc = "auth"
    /\ authItem = Null /\ authCall = Idle /\ signedUp = Null /\ nextUserId = 0
    /\ store = Idle /\ hook = Idle /\ loadCall = Idle /\ updateCall = Idle
    /\ completed = Null /\ calls = 0
    /\ authState = Idle /\ effect = Idle /\ intervals = {}
    /\ now = 0 /\ tz = Idle /\ settings = Idle /\ entries = <<>> /\ days = 0 /\ i = 0
    /\ currentWeight = Null /\ currentBodyFat = Null
    /\ lastActualDay = -1 /\ points = <<>>
    /\ sortedEntries = <<>> /\ actualEntries = <<>> /\ totalDays = 0
    /\ prediction = Idle /\ lastUsedCalories = Null
    /\ firstResult = Null /\ comparison = Idle /\ editingId = Null /\ formDate = 0
    /\ args = Idle /\ score = Null /\ input = Idle /\ plan = Idle

authFrame == <<pc, scoreVars, planVars, envVars, simVars, uiVars, storeVars, useAuthVars>>

\* signUp(email, password): throws when the stored item's email is the given
\* one, otherwise stores { user, password } and returns { user }
SignUp ==
    /\ pc \in {"auth", "useAuth"}
    /\ nextUserId < MaxUsers
    /\ \E email \in Emails, password \in Passwords :
           LET existing == authItem
               user == [id |-> [local |-> nextUserId], email |-> email]
           IN  IF existing # Null /\ Prop(existing, "email") = email
               THEN /\ authCall' = [kind |-> "signUp", email |-> email,
                                    password |-> password, prior |-> signedUp,
                                    ok |-> FALSE, user |-> Null]
                    /\ UNCHANGED <<authItem, signedUp, nextUserId>>
               ELSE /\ authItem' = [user |-> user, password |-> password]
                    /\ authCall' = [kind |-> "signUp", email |-> email,
                                    password |-> password, prior |-> signedUp,
                                    ok |-> TRUE, user |-> user]
                    /\ signedUp' = [email |-> email, password |-> password, user |-> user]
                    /\ nextUserId' = nextUserId + 1
    /\ UNCHANGED authFrame

\* signIn(email, password): throws without a stored item or when the item's
\* email or password differs, otherwise returns { user: parsed.user }
SignIn ==
    /\ pc \in {"auth", "useAuth"}
    /\ \E email \in Emails, password \in Passwords :
           LET stored == authItem
               rejected == \/ stored = Null
                           \/ Prop(stored, "email") # email
                           \/ Prop(stored, "password") # password
           IN  authCall' = [kind |-> "signIn", email |-> email, password |-> password,
                            prior |-> signedUp, ok |-> ~rejected,
                            user |-> IF rejected THEN Null ELSE Prop(stored, "user")]
    /\ UNCHANGED <<authItem, signedUp, nextUserId, authFrame>>

NextAuth == SignUp \/ SignIn

SpecAuth == InitAuth /\ [][NextAuth]_vars

(***************************************************************************)
(* lib/useAuth in localStorage mode: the effect of one mount, with the     *)
(* calls of signUp and signIn that change the stored item meanwhile        *)
(***************************************************************************)
\* the timer setInterval returns in onAuthStateChange
AuthInterval == [interval |-> 1]

InitUseAuth ==
    /\ pc = "useAuth"
    /\ authState = [user |-> Null, isLoading |-> TRUE]
    /\ effect = [mounted |-> TRUE, subscription |-> Null, at |-> "import",
                 currentUser |-> Null, timeout |-> TRUE, signingOut |-> FALSE]
    /\ intervals = {}
    /\ authItem \in {Null, [user |-> [id |-> [local |-> 0], email |-> Str("a@example.com")],
                            password |-> Str("p")]}
    /\ authCall = Idle /\ signedUp = Null /\ nextUserId = 1
    /\ store = Idle /\ hook = Idle /\ loadCall = Idle /\ updateCall = Idle
    /\ completed = Null /\ calls = 0
    /\ now = 0 /\ tz = Idle /\ settings = Idle /\ entries = <<>> /\ days = 0 /\ i = 0
    /\ currentWeight = Null /\ currentBodyFat = Null
    /\ lastActualDay = -1 /\ points = <<>>
    /\ sortedEntries = <<>> /\ actualEntries = <<>> /\ totalDays = 0
    /\ prediction = Idle /\ lastUsedCalories = Null
    /\ firstResult = Null /\ comparison = Idle /\ editingId = Null /\ formDate = 0
    /\ args = Idle /\ score = Null /\ input = Idle /\ plan = Idle

useAuthFrame == <<pc, scoreVars, planVars, envVars, simVars, uiVars, storeVars, authVars>>

\* the callback given to onAuthStateChange, and the same two updates made
\* after the first load: they happen only while mounted
SetUserIfMounted(user) ==
    IF effect.mounted THEN [user |-> user, isLoading |-> FALSE] ELSE authState

\* initAuth: the dynamic import resolves, or fails and the catch block runs
\* (then the promise settles and finally clears the timeout)
InitAuthImport ==
    /\ pc = "useAuth" /\ effect.at = "import"
    /\ \/ /\ effect' = [effect EXCEPT !.at = "getCurrentUser"]
          /\ UNCHANGED authState
       \/ /\ effect' = [effect EXCEPT !.at = "done", !.timeout = FALSE]
          /\ authState' = SetUserIfMounted(Null)
    /\ UNCHANGED <<intervals, useAuthFrame>>

\* initAuth: await getCurrentUser()
InitAuthGetCurrentUser ==
    /\ pc = "useAuth" /\ effect.at = "getCurrentUser"
    /\ effect' = [effect EXCEPT !.at = "subscribe", !.currentUser = GetCurrentUser(authItem)]
    /\ UNCHANGED <<authState, intervals, useAuthFrame>>

\* initAuth after the first load: the guarded setUser(currentUser), then
\* onAuthStateChange, whose first checkAuth reads the item again and calls
\* the callback, and whose interval is kept in subscription; the promise
\* settles and finally clears the timeout
InitAuthSubscribe ==
    /\ pc = "useAuth" /\ effect.at = "subscribe"
    /\ authState' = SetUserIfMounted(GetCurrentUser(authItem))
    /\ intervals' = intervals \cup {AuthInterval}
    /\ effect' = [effect EXCEPT !.at = "done", !.subscription = AuthInterval,
                                !.timeout = FALSE]
    /\ UNCHANGED useAuthFrame

\* a tick of the interval: checkAuth reads the item and calls the callback
CheckAuth ==
    /\ pc = "useAuth"
    /\ \E timer \in intervals : authState' = SetUserIfMounted(GetCurrentUser(authItem))
    /\ UNCHANGED <<effect, intervals, useAuthFrame>>

\* the 5 second timeout fires: setIsLoading(false) while mounted
AuthTimeout ==
    /\ pc = "useAuth" /\ effect.timeout
    /\ effect' = [effect EXCEPT !.timeout = FALSE]
    /\ authState' = IF effect.mounted THEN [authState EXCEPT !.isLoading = FALSE]
                    ELSE authState
    /\ UNCHANGED <<intervals, useAuthFrame>>

\* the cleanup of the effect: mounted = false, and unsubscribe when a
\* subscription has been stored
Unmount ==
    /\ pc = "useAuth" /\ effect.mounted
    /\ effect' = [effect EXCEPT !.mounted = FALSE]
    /\ intervals' = IF effect.subscription # Null
                    THEN intervals \ {effect.subscription}
                    ELSE intervals
    /\ UNCHANGED <<authState, useAuthFrame>>

\* signOut of the hook, up to its await
SignOut ==
    /\ pc = "useAuth" /\ effect.mounted /\ ~effect.signingOut
    /\ effect' = [effect EXCEPT !.signingOut = TRUE]
    /\ UNCHANGED <<authState, intervals, useAuthFrame>>

\* signOut of the hook after the await: setUser(null), or the catch block
SignOutResolve ==
    /\ pc = "useAuth" /\ effect.signingOut
    /\ effect' = [effect EXCEPT !.signingOut = FALSE]
    /\ \/ authState' = [authState EXCEPT !.user = Null]
       \/ UNCHANGED authState
    /\ UNCHANGED <<intervals, useAuthFrame>>

NextUseAuth ==
    \/ InitAuthImport \/ InitAuthGetCurrentUser \/ InitAuthSubscribe
    \/ CheckAuth \/ AuthTimeout \/ Unmount
    \/ SignOut \/ SignOutResolve
    \/ SignUp \/ SignIn

\* the timeout set by setTimeout fires unless it is cleared; nothing makes
\* the import or the reads of initAuth resolve
SpecUseAuth == InitUseAuth /\ [][NextUseAuth]_vars /\ WF_vars(AuthTimeout)

(***************************************************************************)
(* Properties                                                              *)
(***************************************************************************)
InRange(x) == Ge(x, Int2Num(0)) /\ Le(x, Int2Num(100))

Range(q) == {q[k] : k \in 1..Len(q)}

\* the entry buildSimulationData finds for a ChartPoint
EntryOfPoint(p) == EntryByDate(sortedEntries, p.date)

\* C1: every simulatedScore, plannedScore and non-null actualScore of every
\* ChartPoint buildSimulationData returns lies in [0,100].
C1_ScoresInRange ==
    \A k \in 1..Len(points) :
        /\ InRange(points[k].simulatedScore)
        /\ InRange(points[k].plannedScore)
        /\ points[k].actualScore # Null => InRange(points[k].actualScore)

\* C2: calculateScore called with the baseline weight and body fat returns
\* exactly 50, for all baselines and goals.
C2_BaselineScores50 ==
    (pc = "scored" /\ args.weight = args.initialWeight
                   /\ args.bodyFat = args.initialBodyFat)
        => score = Int2Num(50)

\* calculateScore has run on the baseline of a goal that differs from it in
\* the weight and in the body fat
C2_Witness ==
    /\ pc = "scored"
    /\ args.weight = args.initialWeight /\ args.bodyFat = args.initialBodyFat
    /\ args.goalWeight # args.initialWeight /\ args.goalBodyFat # args.initialBodyFat
    /\ score = Int2Num(50)

AtGoal == args.weight = args.goalWeight /\ args.bodyFat = args.goalBodyFat

InputBMR == calculateBMR(input.currentWeight, input.height, input.age, input.gender)

\* C4 as stated: both targets are at least round(bmr * 1.1), bmr being the
\* (rounded) bmr of the same plan.
C4_TargetsAboveReturnedBmrFloor ==
    pc = "planned"
        => /\ Ge(plan.gymDayTargetKcal, MathRound(Mul(plan.bmr, Q(11, 10))))
           /\ Ge(plan.restDayTargetKcal, MathRound(Mul(plan.bmr, Q(11, 10))))

\* C4 amended: both targets are at least round(BMR * 1.1) for the unrounded
\* BMR of the inputs, and at least round(bmr * 1.1) - 1 for the returned bmr.
C4_TargetsAboveBmrFloor ==
    pc = "planned"
        => /\ Ge(plan.gymDayTargetKcal, MathRound(Mul(InputBMR, Q(11, 10))))
           /\ Ge(plan.restDayTargetKcal, MathRound(Mul(InputBMR, Q(11, 10))))
           /\ Ge(plan.gymDayTargetKcal,
                 Sub(MathRound(Mul(plan.bmr, Q(11, 10))), Int2Num(1)))
           /\ Ge(plan.restDayTargetKcal,
                 Sub(MathRound(Mul(plan.bmr, Q(11, 10))), Int2Num(1)))

\* a plan whose rest-day intake was below the limit and was raised to it
C4_Witness ==
    /\ pc = "planned"
    /\ Lt(Add(Mul(InputBMR, Q(13, 10)), plan.deltaEDay), Mul(InputBMR, Q(11, 10)))
    /\ plan.restDayTargetKcal = MathRound(Mul(InputBMR, Q(11, 10)))

\* C5 as stated: on a day whose entry carries a weight, actualWeight and
\* simulatedWeight both equal the logged weight, whatever the calories.
C5_SimulatedEqualsLogged ==
    \A k \in 1..Len(points) :
        LET e == EntryOfPoint(points[k])
        IN  (e # Undefined /\ e.weight # Undefined)
                => /\ points[k].actualWeight = e.weight
                   /\ points[k].simulatedWeight = e.weight

\* C5 amended: on a day whose entry carries a weight, actualWeight equals
\* the logged weight and simulatedWeight equals the logged weight plus the
\* day's weight delta (calories - maintenanceKcal) / 7700, the delta being
\* applied when maintenanceKcal > 0 and the logged calories are not 0.
C5_SimulatedResetThenProjected ==
    \A k \in 1..Len(points) :
        LET e == EntryOfPoint(points[k])
        IN  (e # Undefined /\ e.weight # Undefined)
                => /\ points[k].actualWeight = e.weight
                   /\ points[k].simulatedWeight =
                        IF Gt(settings.maintenanceKcal, Int2Num(0)) /\ e.calories.n # 0
                        THEN Add(e.weight, Div(Sub(e.calories, settings.maintenanceKcal),
                                               Int2Num(KcalPerKg)))
                        ELSE e.weight

\* a day with a logged weight that differs from the running weight before it
\* and whose calories differ from the maintenance
C5_Witness ==
    \E k \in 1..Len(points) :
        /\ points[k].actualWeight # Null
        /\ points[k].actualWeight # settings.currentWeight
        /\ points[k].simulatedWeight # points[k].actualWeight

NoMeasurement == \A k \in 1..Len(entries) :
                    entries[k].weight = Undefined /\ entries[k].bodyFat = Undefined

\* C6: when no entry carries a weight or a body fat, simulatedScore equals
\* plannedScore on every day of the horizon.
C6_NoActualsTracksPlan ==
    NoMeasurement =>
        \A k \in 1..Len(points) : points[k].simulatedScore = points[k].plannedScore

\* a finished simulation over calorie-only entries whose projected weight
\* has left the planned weight
C6_Witness ==
    /\ pc = "simDone" /\ NoMeasurement /\ entries # <<>> /\ Len(points) >= 2
    /\ \E k \in 1..Len(points) : points[k].simulatedWeight # points[k].plannedWeight

\* C7: buildSimulationData(settings, entries, N) returns exactly N points
\* and point i is dated today + i days.
C7_ConsecutiveDates ==
    pc = "simDone"
        => /\ Len(points) = days
           /\ \A k \in 1..Len(points) :
                points[k].date = formatDate(StartDate(now)) + (k - 1)

PastTargetDates == {d \in PlanTargetDates : parseDate(d) < UTCMidnight(now)}

\* C8: with a target date before today the horizon is exactly 1 day: the plan
\* is the same for every past target date, and its daily energy delta is
\* that of the whole weight change in one day.
C8_PastTargetHorizonOne ==
    (pc = "planned" /\ input.targetDate \in PastTargetDates)
        => /\ \A d \in PastTargetDates :
                computeCaloriePlan([input EXCEPT !.targetDate = d], now) = plan
           /\ plan.deltaEDay = Mul(Sub(input.goalWeight, input.currentWeight),
                                   Int2Num(KcalPerKg))

\* a plan for a target date ten days ago and a goal below the current weight
C8_Witness ==
    /\ pc = "planned"
    /\ input.targetDate = formatDate(UTCMidnight(now)) - 10
    /\ Lt(input.goalWeight, input.currentWeight)

\* male, 30 years, 175 cm, 80 kg, goal 70 kg, target date 70 days from today
IsExampleInput ==
    /\ input.gender = "male" /\ input.age = Int2Num(30) /\ input.height = Int2Num(175)
    /\ input.currentWeight = Int2Num(80) /\ input.goalWeight = Int2Num(70)
    /\ input.targetDate = formatDate(UTCMidnight(now)) + 70

\* C9 as stated: the example input yields an empty warnings list.
C9_ExampleNoWarnings ==
    (pc = "planned" /\ IsExampleInput) => plan.warnings = <<>>

\* C9 amended: the example input yields exactly two warnings, the moderate
\* weight-loss-rate caution and the strong deficit caution.
C9_ExampleTwoWarnings ==
    (pc = "planned" /\ IsExampleInput)
        => plan.warnings = <<"lossModerate", "deficitStrong">>

\* the plan of the example input
C9_Witness ==
    /\ pc = "planned" /\ IsExampleInput
    /\ plan.deltaEDay = Int2Num(-1100)

\* C10: at a weekly weight-loss rate of exactly 1.0 kg the strong
\* weight-loss-rate caution is not emitted and the moderate one is.
C10_ExactlyOneKgIsModerate ==
    (pc = "planned" /\ WeeklyDeltaW(input, now) = Int2Num(-1))
        => /\ "lossStrong" \notin Range(plan.warnings)
           /\ "lossModerate" \in Range(plan.warnings)

\* a plan that asks for exactly 1 kg a week over five weeks
C10_Witness ==
    /\ pc = "planned"
    /\ WeeklyDeltaW(input, now) = Int2Num(-1)
    /\ PlanHorizon(input, now) = 35
    /\ "lossModerate" \in Range(plan.warnings)

\* the days from today's date to the target date, at least 1
C11_N ==
    LET d == input.targetDate - (now \div HoursPerDay)
    IN  IF d > 1 THEN d ELSE 1

\* 10 * weight + 6.25 * height - 5 * age + 5 (male) or - 161 (female)
C11_BMR ==
    Add(Sub(Add(Mul(Int2Num(10), input.currentWeight), Mul(Q(625, 100), input.height)),
            Mul(Int2Num(5), input.age)),
        IF input.gender = "male" THEN Int2Num(5) ELSE Int2Num(-161))

\* (goalWeight - currentWeight) / N * 7700
C11_DeltaEDay ==
    Mul(Div(Sub(input.goalWeight, input.currentWeight), Int2Num(C11_N)), Int2Num(7700))

\* C11: the plan's maintenanceKcal is round(BMR * 1.3), its restDayTargetKcal
\* round(max(BMR * 1.3 + dE, BMR * 1.1)), its gymDayTargetKcal
\* round(max(BMR * 1.3 + 6 * currentWeight * gymSessionHours + dE, BMR * 1.1))
\* and its bmr round(BMR), with dE = (goalWeight - currentWeight) / N * 7700
\* and N = max(1, days from today to the target date).
C11_PlanFormulas ==
    pc = "planned"
        => LET maint == Mul(C11_BMR, Q(13, 10))
               floor == Mul(C11_BMR, Q(11, 10))
               gym == Mul(Mul(Int2Num(6), input.currentWeight), input.gymSessionHours)
           IN  /\ plan.maintenanceKcal = MathRound(maint)
               /\ plan.restDayTargetKcal
                      = MathRound(MathMax(Add(maint, C11_DeltaEDay), floor))
               /\ plan.gymDayTargetKcal
                      = MathRound(MathMax(Add(Add(maint, gym), C11_DeltaEDay), floor))
               /\ plan.bmr = MathRound(C11_BMR)

\* a plan for a woman who trains, whose rest-day intake is at the lower limit
\* and whose gym-day intake is above it
C11_Witness ==
    /\ pc = "planned"
    /\ input.gender = "female"
    /\ Gt(input.gymSessionHours, Int2Num(0))
    /\ C11_N > 1
    /\ plan.restDayTargetKcal = MathRound(Mul(C11_BMR, Q(11, 10)))
    /\ Gt(plan.gymDayTargetKcal, plan.restDayTargetKcal)

\* the positions of the entries with a weight or a body fat
C12_Measured ==
    {k \in 1..Len(entries) :
        entries[k].weight # Undefined \/ entries[k].bodyFat # Undefined}

\* the score of the entry at position k, a missing figure taken from the baseline
C12_ScoreOfEntry(k) ==
    calculateScore(IF entries[k].weight # Undefined THEN entries[k].weight
                   ELSE settings.currentWeight,
                   IF entries[k].bodyFat # Undefined THEN entries[k].bodyFat
                   ELSE settings.currentBodyFat,
                   settings.goalWeight, settings.goalBodyFat,
                   settings.currentWeight, settings.currentBodyFat)

\* C12: compareWithPlan returns isOnSchedule = TRUE exactly when
\* actualProgress >= plannedProgress - 2.5, actualProgress being the score of
\* a measured entry of the latest measured date (the score of the baseline
\* when no entry is measured); daysBehind is present exactly when isOnSchedule
\* is FALSE and the days to the target date are positive, and is then
\* ceil((plannedProgress - actualProgress) / 50 * days to the target date).
C12_OnScheduleAndDaysBehind ==
    pc = "compared"
        => LET r == comparison
               totalDaysToTarget == settings.targetDate - (now \div HoursPerDay)
               latest == {k \in C12_Measured :
                             \A j \in C12_Measured : entries[j].date <= entries[k].date}
           IN  /\ C12_Measured = {}
                    => r.actualProgress
                           = calculateScore(settings.currentWeight, settings.currentBodyFat,
                                            settings.goalWeight, settings.goalBodyFat,
                                            settings.currentWeight, settings.currentBodyFat)
               /\ C12_Measured # {}
                    => \E k \in latest : r.actualProgress = C12_ScoreOfEntry(k)
               /\ r.isOnSchedule
                    <=> Ge(r.actualProgress, Sub(r.plannedProgress, Q(5, 2)))
               /\ (r.daysBehind # Undefined)
                    <=> (~r.isOnSchedule /\ totalDaysToTarget > 0)
               /\ r.daysBehind # Undefined
                    => r.daysBehind
                           = MathCeil(Mul(Div(Sub(r.plannedProgress, r.actualProgress),
                                              Int2Num(50)),
                                          Int2Num(totalDaysToTarget)))

\* a comparison exactly 2.5 points below the plan, which is still on schedule
C12_Witness ==
    /\ pc = "compared"
    /\ comparison.actualProgress = Sub(comparison.plannedProgress, Q(5, 2))
    /\ comparison.isOnSchedule
    /\ comparison.daysBehind = Undefined
    /\ settings.targetDate > now \div HoursPerDay

\* a comparison behind the plan whose latest measured entry is not the last of the list
C12_WitnessBehind ==
    /\ pc = "compared"
    /\ ~comparison.isOnSchedule
    /\ comparison.daysBehind # Undefined
    /\ Len(entries) = 2 /\ entries[1].date > entries[2].date
    /\ C12_Measured = {1, 2}

\* C13: the entry list the form hands to onChange holds at most one entry
\* per calendar date, whatever submissions, edits and deletions came before.
C13_OneEntryPerDate ==
    pc = "form"
        => \A j, k \in 1..Len(entries) :
               j # k => entries[j].date # entries[k].date

\* C14: a second call of buildSimulationData with the same settings, entries
\* and horizon on the same day returns the ChartPoints of the first call, and
\* no step of a call changes the settings or the entry list it was given.
C14_DeterministicAndPure ==
    /\ [](pc = "simDone" /\ firstResult # Null
            => /\ points = firstResult.points
               /\ settings = firstResult.settings
               /\ entries = firstResult.entries)
    /\ [][settings' = settings /\ entries' = entries]_vars

\* the second call has returned; it was made later in the day than the first,
\* with an entry list that is not in the order of its dates
C14_Witness ==
    /\ pc = "simDone"
    /\ firstResult # Null
    /\ now > firstResult.now
    /\ Len(points) = MaxDays
    /\ Len(entries) = 2 /\ entries[1].date > entries[2].date

\* the index of the day the latest iteration of the loop has simulated
C15_Day == Len(points) - 1

\* the entries logged for the date of the latest ChartPoint
C15_EntriesOfDay ==
    {j \in 1..Len(entries) : entries[j].date = points[Len(points)].date}

\* C15: the calories used for a simulated day are (a) the logged calories when
\* the date has an entry; else (b) maintenanceKcal plus the average delta of
\* the trailing week when the day is after today and the prediction source is
\* available; else (c) gymDayTargetKcal when gymSessionsPerWeek > 0 and
\* i mod round(7 / gymSessionsPerWeek) = 0, restDayTargetKcal otherwise.
C15_CaloriePriority ==
    (pc \in {"simLoop", "simDone"} /\ points # <<>>)
        => LET p == points[Len(points)]
               afterToday == p.date > now \div HoursPerDay
               available == prediction.hasPredictionSource
               period == MathRound(Div(Int2Num(7), Int2Num(settings.gymSessionsPerWeek))).n
               gymDay == settings.gymSessionsPerWeek > 0 /\ C15_Day % period = 0
           IN  IF C15_EntriesOfDay # {}
               THEN \E j \in C15_EntriesOfDay : lastUsedCalories = entries[j].calories
               ELSE IF afterToday /\ available
               THEN lastUsedCalories = Add(settings.maintenanceKcal, prediction.avgDeltaKcal)
               ELSE IF gymDay
               THEN lastUsedCalories = settings.gymDayTargetKcal
               ELSE lastUsedCalories = settings.restDayTargetKcal

\* tomorrow, with a week logged up to tomorrow: the logged calories are used,
\* though the extrapolation is available and gives another figure
C15_Witness ==
    /\ pc = "simLoop"
    /\ C15_Day = 1
    /\ C15_EntriesOfDay # {}
    /\ prediction.hasPredictionSource
    /\ lastUsedCalories # Add(settings.maintenanceKcal, prediction.avgDeltaKcal)
    /\ lastUsedCalories = Int2Num(7700)

\* the day after tomorrow, a planned gym day without entry: the extrapolation
\* is used and not the plan target
C15_WitnessExtrapolated ==
    /\ pc = "simLoop"
    /\ C15_Day = 2
    /\ C15_EntriesOfDay = {}
    /\ settings.gymSessionsPerWeek = 3
    /\ prediction.hasPredictionSource
    /\ lastUsedCalories = Add(settings.maintenanceKcal, prediction.avgDeltaKcal)
    /\ lastUsedCalories # settings.gymDayTargetKcal

\* C16: on every simulated day with maintenanceKcal > 0 and used calories
\* c >= 0, the running weight after the day is base + (c - maintenanceKcal) /
\* 7700, base being the weight measured that day if there is one and the
\* running weight after the day before otherwise (settings.currentWeight on
\* day 0).
C16_WeightDeltaApplied ==
    (pc \in {"simLoop", "simDone"} /\ points # <<>>
        /\ Gt(settings.maintenanceKcal, Int2Num(0))
        /\ Ge(lastUsedCalories, Int2Num(0)))
        => LET n == Len(points)
               base == IF points[n].actualWeight # Null THEN points[n].actualWeight
                       ELSE IF n = 1 THEN settings.currentWeight
                       ELSE points[n - 1].simulatedWeight
               after == Add(base, Div(Sub(lastUsedCalories, settings.maintenanceKcal),
                                      Int2Num(7700)))
           IN  currentWeight = after /\ points[n].simulatedWeight = after

\* the ChartPoint at position n carries a measured weight or body fat
MeasuredPoint(n) ==
    points[n].actualWeight # Null \/ points[n].actualBodyFat # Null

\* the position of the most recent measured ChartPoint at or before n, 0 if none
LastMeasuredUpTo(n) ==
    IF \E m \in 1..n : MeasuredPoint(m)
    THEN CHOOSE m \in 1..n : MeasuredPoint(m) /\ \A j \in (m + 1)..n : ~MeasuredPoint(j)
    ELSE 0

\* C17: on a day i after the most recent measured day L <= i of the horizon,
\* with totalDaysToTarget - i > 0, simulatedScore(i) is the score of the
\* running state plus (S_L - P_L) / (totalDaysToTarget - i) * (i - L), clamped
\* to [0,100], S_L being the score of the measurement logged on day L and P_L
\* the planned score of day L, whatever other measured entries the list holds.
C17_AdjustmentFromLastMeasuredDay ==
    pc = "simDone"
        => \A n \in 1..Len(points) :
             LET m == LastMeasuredUpTo(n)
                 dayI == n - 1
                 dayL == m - 1
                 totalDaysToTarget == settings.targetDate - (now \div HoursPerDay)
                 e == EntryOfPoint(points[m])
                 sL == ScoreOf(settings, Coalesce(e.weight, settings.currentWeight),
                               Coalesce(e.bodyFat, settings.currentBodyFat))
                 pL == points[m].plannedScore
                 running == ScoreOf(settings, points[n].simulatedWeight,
                                    points[n].simulatedBodyFat)
             IN  (m > 0 /\ m < n /\ totalDaysToTarget - dayI > 0)
                    => points[n].simulatedScore
                           = Clamp100(Add(running,
                                          Mul(Div(Sub(sL, pL),
                                                  Int2Num(totalDaysToTarget - dayI)),
                                              Int2Num(dayI - dayL))))

\* C18: a simulated day without a weight or body-fat measurement of its own
\* that lies at or before the last measured day of the horizon has
\* simulatedScore = plannedScore.
C18_UnmeasuredBeforeLastMeasuredIsPlanned ==
    pc = "simDone"
        => \A n \in 1..Len(points) :
               (~MeasuredPoint(n) /\ \E m \in n..Len(points) : MeasuredPoint(m))
                   => points[n].simulatedScore = points[n].plannedScore

\* the same restricted to the days before the first measured day of the horizon
C18_UnmeasuredBeforeFirstMeasured ==
    pc = "simDone"
        => \A n \in 1..Len(points) :
               (/\ \A m \in 1..n : ~MeasuredPoint(m)
                /\ \E m \in n..Len(points) : MeasuredPoint(m))
                   => points[n].simulatedScore = points[n].plannedScore

\* the positions of the entries logged for the date of the ChartPoint at n
EntriesOfPoint(n) == {j \in 1..Len(entries) : entries[j].date = points[n].date}

\* C19 as stated: hasPrediction is TRUE exactly on the days whose calories
\* came from the extrapolation: days after today without an entry, with the
\* prediction source available.
C19_HasPredictionIffExtrapolated ==
    pc = "simDone"
        => \A n \in 1..Len(points) :
               points[n].hasPrediction
                   <=> (/\ EntriesOfPoint(n) = {}
                        /\ points[n].date > now \div HoursPerDay
                        /\ prediction.hasPredictionSource)

\* C19 amended: hasPrediction is TRUE exactly on the days after today when
\* the prediction source is available, whether the day has an entry or not.
C19_HasPredictionIffFutureAndSource ==
    pc = "simDone"
        => \A n \in 1..Len(points) :
               points[n].hasPrediction
                   <=> (/\ points[n].date > now \div HoursPerDay
                        /\ prediction.hasPredictionSource)

\* tomorrow has a logged entry and its ChartPoint is flagged, with a later
\* day flagged too and today not
C19_Witness ==
    /\ pc = "simDone"
    /\ Len(points) >= 3
    /\ ~points[1].hasPrediction
    /\ points[2].hasPrediction /\ EntriesOfPoint(2) # {}
    /\ points[3].hasPrediction /\ EntriesOfPoint(3) = {}

\* the latest logged date of the entry list
LatestLoggedDate ==
    CHOOSE d \in {entries[j].date : j \in 1..Len(entries)} :
        \A j \in 1..Len(entries) : entries[j].date <= d

\* the positions of the entries logged within the 7 days ending at the latest
\* logged date
WeekEntries ==
    {j \in 1..Len(entries) : entries[j].date >= LatestLoggedDate - 6}

RECURSIVE SumCalorieDeltas(_)
SumCalorieDeltas(S) ==
    IF S = {} THEN Int2Num(0)
    ELSE LET j == CHOOSE x \in S : TRUE
         IN  Add(Sub(entries[j].calories, settings.maintenanceKcal),
                 SumCalorieDeltas(S \ {j}))

\* C20: the extrapolation is available only if maintenanceKcal > 0 and each of
\* the 7 consecutive calendar days ending at the latest logged date has an
\* entry, and its delta is the mean of calories - maintenanceKcal over those
\* 7 days.
C20_WeekFullyLogged ==
    (pc \in {"simLoop", "simDone"} /\ prediction.hasPredictionSource)
        => /\ Gt(settings.maintenanceKcal, Int2Num(0))
           /\ \A d \in (LatestLoggedDate - 6)..LatestLoggedDate :
                  \E j \in 1..Len(entries) : entries[j].date = d
           /\ Cardinality(WeekEntries) = 7
           /\ prediction.avgDeltaKcal = Div(SumCalorieDeltas(WeekEntries), Int2Num(7))

\* the same for the entry lists that hold one entry per date
C20_WeekFullyLoggedUniqueDates ==
    (\A j, k \in 1..Len(entries) : j # k => entries[j].date # entries[k].date)
        => C20_WeekFullyLogged

\* the running weight before the projection of the latest simulated day: the
\* weight measured that day, else the running weight after the day before
WeightBeforeProjection ==
    LET n == Len(points)
    IN  IF points[n].actualWeight # Null THEN points[n].actualWeight
        ELSE IF n = 1 THEN settings.currentWeight
        ELSE points[n - 1].simulatedWeight

\* the same for the body fat
BodyFatBeforeProjection ==
    LET n == Len(points)
    IN  IF points[n].actualBodyFat # Null THEN points[n].actualBodyFat
        ELSE IF n = 1 THEN settings.currentBodyFat
        ELSE points[n - 1].simulatedBodyFat

\* the projection of the latest simulated day was skipped
ProjectionSkipped ==
    ~Gt(settings.maintenanceKcal, Int2Num(0)) \/ ~Truthy(lastUsedCalories)

\* C21: on a simulated day whose calories are at or above maintenanceKcal, or
\* whose projection is skipped, simulatedBodyFat is the body fat measured that
\* day if there is one and the simulatedBodyFat of the day before otherwise.
C21_BodyFatUnchangedWithoutLoss ==
    (pc \in {"simLoop", "simDone"} /\ points # <<>>
        /\ (ProjectionSkipped \/ Ge(lastUsedCalories, settings.maintenanceKcal)))
        => /\ currentBodyFat = BodyFatBeforeProjection
           /\ points[Len(points)].simulatedBodyFat = BodyFatBeforeProjection

\* the third day gained weight from calories above maintenanceKcal and kept
\* the body fat of the second day, which a loss had lowered
C21_Witness ==
    /\ pc = "simLoop"
    /\ Len(points) = 3
    /\ Gt(settings.maintenanceKcal, Int2Num(0))
    /\ Gt(lastUsedCalories, settings.maintenanceKcal)
    /\ points[3].actualBodyFat = Null
    /\ Gt(points[3].simulatedWeight, points[2].simulatedWeight)
    /\ points[3].simulatedBodyFat = points[2].simulatedBodyFat
    /\ Lt(points[2].simulatedBodyFat, settings.currentBodyFat)

\* C22: on a simulated day whose weight delta d is negative, the new body fat
\* is newFatMass / newWeight * 100 with newFatMass = max(0, fatMassBefore -
\* 0.8 * |d|), fatMassBefore being the weight before the day's loss times the
\* body fat before the step / 100, and newWeight the weight after the loss.
C22_FatMassFromWeightBeforeLoss ==
    (pc \in {"simLoop", "simDone"} /\ points # <<>>
        /\ ~ProjectionSkipped /\ Lt(lastUsedCalories, settings.maintenanceKcal))
        => LET d == Div(Sub(lastUsedCalories, settings.maintenanceKcal), Int2Num(7700))
               newWeight == Add(WeightBeforeProjection, d)
               fatMassBefore == Div(Mul(WeightBeforeProjection, BodyFatBeforeProjection),
                                    Int2Num(100))
               newFatMass == MathMax(Int2Num(0),
                                     Sub(fatMassBefore, Mul(Q(8, 10), MathAbs(d))))
           IN  currentBodyFat = Mul(Div(newFatMass, newWeight), Int2Num(100))

\* C23: actualWeight and actualBodyFat of a ChartPoint are the values logged
\* by the entry of its date, null when the entry lacks them or the date has no
\* entry; actualScore is non-null exactly when the entry carries a weight, and
\* with both measurements it is calculateScore of the two logged values.
C23_ActualsAreLoggedOrNull ==
    pc = "simDone"
        => \A n \in 1..Len(points) :
             LET p == points[n]
             IN  IF EntriesOfPoint(n) = {}
                 THEN p.actualWeight = Null /\ p.actualBodyFat = Null /\ p.actualScore = Null
                 ELSE \E j \in EntriesOfPoint(n) :
                        LET e == entries[j]
                        IN  /\ p.actualWeight
                                 = (IF e.weight # Undefined THEN e.weight ELSE Null)
                            /\ p.actualBodyFat
                                 = (IF e.bodyFat # Undefined THEN e.bodyFat ELSE Null)
                            /\ (p.actualScore # Null) <=> (e.weight # Undefined)
                            /\ (e.weight # Undefined /\ e.bodyFat # Undefined)
                                 => p.actualScore
                                        = calculateScore(e.weight, e.bodyFat,
                                                         settings.goalWeight,
                                                         settings.goalBodyFat,
                                                         settings.currentWeight,
                                                         settings.currentBodyFat)

\* two days: a weight only, scored with the running body fat, and both
\* measurements, scored from the two logged values
C23_Witness ==
    /\ pc = "simDone"
    /\ Len(points) = 2
    /\ points[1].actualWeight # Null /\ points[1].actualBodyFat = Null
    /\ points[1].actualScore # Null
    /\ points[2].actualWeight # Null /\ points[2].actualBodyFat # Null
    /\ points[2].actualScore # Null

\* the days from today to the target date of the settings
TotalDaysToTarget == settings.targetDate - (now \div HoursPerDay)

\* C24: with totalDaysToTarget > 0, day i has plannedScore = 50 + min(50,
\* 50 * i / totalDaysToTarget) and plannedWeight = currentWeight + (goalWeight
\* - currentWeight) * min(1, i / totalDaysToTarget), so that plannedScore is 50
\* on day 0, never decreases and is 100 from day totalDaysToTarget on; with
\* totalDaysToTarget <= 0, plannedScore = 50 and plannedWeight = currentWeight.
C24_PlannedTrack ==
    pc = "simDone"
        => \A n \in 1..Len(points) :
             LET dayI == n - 1
                 p == points[n]
                 ratio == Div(Int2Num(dayI), Int2Num(TotalDaysToTarget))
             IN  IF TotalDaysToTarget > 0
                 THEN /\ p.plannedScore
                          = Add(Int2Num(50),
                                MathMin(Int2Num(50), Mul(Int2Num(50), ratio)))
                      /\ p.plannedWeight
                          = Add(settings.currentWeight,
                                Mul(Sub(settings.goalWeight, settings.currentWeight),
                                    MathMin(Int2Num(1), ratio)))
                      /\ dayI = 0 => p.plannedScore = Int2Num(50)
                      /\ dayI >= TotalDaysToTarget => p.plannedScore = Int2Num(100)
                      /\ n > 1 => Ge(p.plannedScore, points[n - 1].plannedScore)
                 ELSE /\ p.plannedScore = Int2Num(50)
                      /\ p.plannedWeight = settings.currentWeight

\* a horizon of three days with the target date tomorrow: the plan starts at
\* 50 and the baseline weight, and stays at 100 and the goal weight on the day
\* after the target date
C24_Witness ==
    /\ pc = "simDone"
    /\ Len(points) = 3
    /\ TotalDaysToTarget = 1
    /\ settings.goalWeight # settings.currentWeight
    /\ points[1].plannedScore = Int2Num(50)
    /\ points[1].plannedWeight = settings.currentWeight
    /\ points[3].plannedScore = Int2Num(100)
    /\ points[3].plannedWeight = settings.goalWeight

\* the plan carries the warning
Warned(tag) == \E k \in 1..Len(plan.warnings) : plan.warnings[k] = tag

\* the weekly weight change of the input: (goalWeight - currentWeight) / N * 7
C25_Weekly ==
    Mul(Div(Sub(input.goalWeight, input.currentWeight), Int2Num(C11_N)), Int2Num(7))

\* C25: the plan warns of a strong loss exactly when the weekly loss is above
\* 1 kg and of a moderate one exactly when it is above 0.8 kg and not above
\* 1 kg; likewise for the weekly gain with 0.5 and 0.3 kg, for the daily
\* deficit with 1000 and 800 kcal and for the daily surplus with 600 and
\* 400 kcal; no warning is repeated, so each family gives at most one.
C25_WarningsOnStrictThresholds ==
    pc = "planned"
        => LET w == C25_Weekly
               e == C11_DeltaEDay
           IN  /\ Warned("lossStrong") <=> Lt(w, Int2Num(-1))
               /\ Warned("lossModerate") <=> (Lt(w, Q(-8, 10)) /\ ~Lt(w, Int2Num(-1)))
               /\ Warned("gainStrong") <=> Gt(w, Q(5, 10))
               /\ Warned("gainModerate") <=> (Gt(w, Q(3, 10)) /\ ~Gt(w, Q(5, 10)))
               /\ Warned("deficitStrong") <=> Lt(e, Int2Num(-1000))
               /\ Warned("deficitModerate")
                    <=> (Lt(e, Int2Num(-800)) /\ ~Lt(e, Int2Num(-1000)))
               /\ Warned("surplusStrong") <=> Gt(e, Int2Num(600))
               /\ Warned("surplusModerate") <=> (Gt(e, Int2Num(400)) /\ ~Gt(e, Int2Num(600)))
               /\ \A j, k \in 1..Len(plan.warnings) :
                      j # k => plan.warnings[j] # plan.warnings[k]

\* a deficit of exactly 1000 kcal a day: the moderate deficit caution and not
\* the strong one
C25_Witness ==
    /\ pc = "planned"
    /\ C11_DeltaEDay = Int2Num(-1000)
    /\ Warned("deficitModerate") /\ ~Warned("deficitStrong")

\* a gain of exactly 0.3 kg a week: no gain caution
C25_WitnessGain ==
    /\ pc = "planned"
    /\ C25_Weekly = Q(3, 10)
    /\ ~Warned("gainModerate") /\ ~Warned("gainStrong")


C28_WitnessOneDay ==
    /\ pc = "compared"
    /\ settings.targetDate = (now \div HoursPerDay) + 2
    /\ comparison.daysBehind = Int2Num(1)


\* C26: once updateEntries(newEntries) has returned successfully and no later
\* update or reload has been started, the entries of the hook are newEntries,
\* also when a loadData started before the update resolves after it; the same
\* for updateSettings and the settings of the hook.
C26_UpdateWins ==
    (pc = "storage" /\ completed # Null /\ completed.ok)
        => /\ completed.kind = "entries" => hook.entries = completed.arg
           /\ completed.kind = "settings" => hook.settings = completed.arg

\* C27: when saveEntries throws, the entries stored for the user are those
\* stored before the call, and never fewer.
C27_FailedSaveKeepsStore ==
    (pc = "storage" /\ completed # Null /\ completed.kind = "entries" /\ ~completed.ok)
        => /\ store.entries = completed.before
           /\ Len(store.entries) >= Len(completed.before)


\* C29: after a signUp(email, password) that succeeded, signIn with that
\* email and password returns the user signUp returned, signIn with that
\* email and another password is rejected, and a second signUp with that
\* email is rejected.
C29_SignInAfterSignUp ==
    (pc = "auth" /\ authCall # Idle /\ authCall.prior # Null
        /\ authCall.email = authCall.prior.email)
        => /\ (authCall.kind = "signIn" /\ authCall.password = authCall.prior.password)
                => (authCall.ok /\ authCall.user = authCall.prior.user)
           /\ (authCall.kind = "signIn" /\ authCall.password # authCall.prior.password)
                => ~authCall.ok
           /\ authCall.kind = "signUp" => ~authCall.ok


\* an interval made by initAuth that still runs after the unmount is stopped
\* at some later time
C30_Unsubscribed ==
    []((~effect.mounted /\ intervals # {}) => <>(intervals = {}))

\* no step of the effect changes user or isLoading after the unmount
C30_NoUpdateAfterUnmount ==
    [][(~effect.mounted /\ ~effect.signingOut) => authState' = authState]_vars

\* isLoading becomes false while mounted, whether or not initAuth goes on
C30_LoadingEnds ==
    <>(~effect.mounted \/ ~authState.isLoading)

\* C30: in useAuth, for every interleaving of the unmount with initAuth, every
\* subscription initAuth creates is eventually unsubscribed after the unmount,
\* no setUser or setIsLoading happens after the unmount, and while mounted
\* isLoading eventually becomes false even if initAuth never resolves.
C30_UseAuthCleanup ==
    /\ C30_Unsubscribed
    /\ C30_NoUpdateAfterUnmount
    /\ C30_LoadingEnds

====
